---- MODULE Spec2Model ----
(***************************************************************************)
(* invman: schema evolution engine, typed record store and audit trail.    *)
(* The storage backend (InvManSqlite) is modelled as a value `db` holding  *)
(* the record table, the persisted schema registry and the three ledgers;  *)
(* the caller's AppConfig is the variable `config`.  Every handler is one  *)
(* action: it runs its whole transaction on a working copy of `db` and     *)
(* either commits the copy or, on the first failing statement, drops it.   *)
(***************************************************************************)
EXTENDS Integers, Sequences, FiniteSets, TLC

VARIABLES db, config, now, last

vars == <<db, config, now, last>>

(***************************************************************************)
(* Bounds                                                                  *)
(***************************************************************************)
\* number of committed write transactions explored: the clock stops there
\* and no further command is run
MaxTime == 4

(***************************************************************************)
(* Option<T>: None is the empty sequence, Some(x) the one-element sequence *)
(***************************************************************************)
None == <<>>

Some(x) == <<x>>

is_some(o) == o # <<>>

unwrap_or(o, d) == IF o = <<>> THEN d ELSE o[1]

Range(s) == {s[i] : i \in 1..Len(s)}

\* Vec::iter().position(pred): index of the first element with that name
Position(coll, name) ==
    IF \E i \in 1..Len(coll) : coll[i].name = name
    THEN Some(CHOOSE i \in 1..Len(coll) :
                /\ coll[i].name = name
                /\ \A j \in 1..(i - 1) : coll[j].name # name)
    ELSE None

\* Vec::remove(idx)
RemoveAt(s, idx) == [i \in 1..(Len(s) - 1) |-> IF i < idx THEN s[i] ELSE s[i + 1]]

(***************************************************************************)
(* Column declarations                                                     *)
(***************************************************************************)
ColumnType == {"TEXT", "VARCHAR", "INT", "REAL", "BOOL"}

\* characters of the column names used as inputs
Chars(name) ==
    CASE name = "qty" -> <<"q", "t", "y">>
      [] name = "sku" -> <<"s", "k", "u">>
      [] name = "Qty" -> <<"Q", "t", "y">>
      [] name = "seen" -> <<"s", "e", "e", "n">>
      [] OTHER -> <<>>

Upper(c) ==
    CASE c = "q" -> "Q" [] c = "t" -> "T" [] c = "y" -> "Y"
      [] c = "s" -> "S" [] c = "k" -> "K" [] c = "u" -> "U"
      [] OTHER -> c

Lower(c) ==
    CASE c = "Q" -> "q" [] c = "T" -> "t" [] c = "Y" -> "y"
      [] c = "S" -> "s" [] c = "K" -> "k" [] c = "U" -> "u"
      [] OTHER -> c

\* name.replace("-", " ").replace("_", " "), the first char upper-cased and
\* the others lower-cased
display_name_default(name) ==
    LET cs == [i \in 1..Len(Chars(name)) |->
                 IF Chars(name)[i] \in {"-", "_"} THEN " " ELSE Chars(name)[i]]
    IN  [i \in 1..Len(cs) |-> IF i = 1 THEN Upper(cs[i]) ELSE Lower(cs[i])]

\* the declaration SchemaDeclaration::new builds from the arguments: an
\* absent option becomes 0, false, "NULL" or ""
declaration_from(args) ==
    [name         |-> args.name,
     display_name |-> IF is_some(args.display_name)
                      THEN args.display_name[1]
                      ELSE display_name_default(args.name),
     unique       |-> args.unique,
     max_length   |-> unwrap_or(args.max_length, 0),
     min_length   |-> unwrap_or(args.min_length, 0),
     max          |-> unwrap_or(args.max, 0),
     min          |-> unwrap_or(args.min, 0),
     nullable     |-> unwrap_or(args.nullable, FALSE),
     column_type  |-> args.column_type,
     default      |-> unwrap_or(args.default, "NULL"),
     hint         |-> unwrap_or(args.hint, ""),
     layout       |-> unwrap_or(args.layout, "")]

\* variant of SchemaDeclaration::new without the min / max comparison
SchemaDeclaration_new_unordered(args) ==
    LET decl == declaration_from(args)
    IN  IF decl.min_length > decl.max_length
          THEN [ok |-> FALSE, err |-> "min-length larger than max-length"]
        ELSE IF decl.column_type = "VARCHAR" /\ decl.max_length = 0
          THEN [ok |-> FALSE, err |-> "varchar with max-length 0"]
        ELSE IF /\ decl.default # "NULL"
                /\ decl.max_length > 0
                /\ Len(decl.default) > decl.max_length
          THEN [ok |-> FALSE, err |-> "default longer than max-length"]
        ELSE IF /\ decl.default # "NULL"
                /\ decl.min_length > 0
                /\ Len(decl.default) < decl.min_length
          THEN [ok |-> FALSE, err |-> "default shorter than min-length"]
        ELSE [ok |-> TRUE, decl |-> decl]

\* variant of SchemaDeclaration::new without the VARCHAR max-length check
SchemaDeclaration_new_unsized(args) ==
    LET decl == declaration_from(args)
    IN  IF decl.min_length > decl.max_length
          THEN [ok |-> FALSE, err |-> "min-length larger than max-length"]
        ELSE IF decl.min > decl.max
          THEN [ok |-> FALSE, err |-> "min larger than max"]
        ELSE IF /\ decl.default # "NULL"
                /\ decl.max_length > 0
                /\ Len(decl.default) > decl.max_length
          THEN [ok |-> FALSE, err |-> "default longer than max-length"]
        ELSE IF /\ decl.default # "NULL"
                /\ decl.min_length > 0
                /\ Len(decl.default) < decl.min_length
          THEN [ok |-> FALSE, err |-> "default shorter than min-length"]
        ELSE [ok |-> TRUE, decl |-> decl]

\* SchemaDeclaration::new: the validated declaration, or an error
SchemaDeclaration_new(args) ==
    LET decl == declaration_from(args)
    IN  IF decl.min_length > decl.max_length
          THEN [ok |-> FALSE, err |-> "min-length larger than max-length"]
        ELSE IF decl.min > decl.max
          THEN [ok |-> FALSE, err |-> "min larger than max"]
        ELSE IF decl.column_type = "VARCHAR" /\ decl.max_length = 0
          THEN [ok |-> FALSE, err |-> "varchar with max-length 0"]
        ELSE IF /\ decl.default # "NULL"
                /\ decl.max_length > 0
                /\ Len(decl.default) > decl.max_length
          THEN [ok |-> FALSE, err |-> "default longer than max-length"]
        ELSE IF /\ decl.default # "NULL"
                /\ decl.min_length > 0
                /\ Len(decl.default) < decl.min_length
          THEN [ok |-> FALSE, err |-> "default shorter than min-length"]
        ELSE [ok |-> TRUE, decl |-> decl]

\* SchemaDeclaration::is_equal
is_equal(d, other) == d.name = other.name

(***************************************************************************)
(* Inputs                                                                  *)
(***************************************************************************)
AlterArgs(name, ctype, unique, max_length, min, max, nullable, default) ==
    [name |-> name, display_name |-> None, unique |-> unique,
     max_length |-> max_length, min_length |-> None, max |-> max, min |-> min,
     nullable |-> nullable, column_type |-> ctype, default |-> default,
     hint |-> None, layout |-> None]

\* the column declarations an operator submits to `inventory schema alter`
AlterArgsSet ==
    { AlterArgs("qty", "INT", FALSE, None, Some(0), Some(100), Some(TRUE), None),
      AlterArgs("qty", "INT", FALSE, None, None, None, None, None),
      AlterArgs("sku", "VARCHAR", TRUE, Some(3), None, None, Some(TRUE), Some("ab")),
      AlterArgs("sku", "VARCHAR", FALSE, None, None, None, Some(TRUE), None) }

ColumnNames == {"qty", "sku", "zzz"}

\* a command-line parameter, seen at its first '=' (str::split_once)
Param(name, value) == [eq |-> TRUE, name |-> name, value |-> value]

Malformed(text) == [eq |-> FALSE, text |-> text]

ParamSet ==
    { Param("qty", "5"), Param("qty", "200"),
      Param("sku", "ab"), Param("sku", "abcd"),
      Param("zzz", "1"), Malformed("qty") }

\* the parameter vectors handed to `inventory add` and `inventory edit`:
\* none, each single parameter, two columns at once, and a valid parameter
\* next to one without '=' or one naming an undeclared column
ParamVecs ==
    {<<>>} \cup {<<p>> : p \in ParamSet}
           \cup {<<Param("qty", "5"), Param("sku", "ab")>>,
                 <<Param("qty", "5"), Malformed("qty")>>,
                 <<Param("zzz", "1"), Param("qty", "5")>>}

\* the --auth token, seen at its first ':' (str::split_once)
Token(username, password) == [colon |-> TRUE, username |-> username, password |-> password]

\* absent, empty, without ':', wrong credentials, or the credentials of a
\* user
AuthTokens ==
    { None, Some([colon |-> FALSE, text |-> ""]),
      Some([colon |-> FALSE, text |-> "alice"]),
      Some(Token("alice", "wrong")), Some(Token("alice", "pw")) }

Identifiers == {"1", "2", "9"}

\* InventoryListArgs: --limit, --raw and --params of `inventory list`
ListArgs(limit, raw, params) == [limit |-> limit, raw |-> raw, params |-> params]

(***************************************************************************)
(* Storage: the record table                                               *)
(***************************************************************************)
SystemColumns == <<"id", "created_at", "updated_at", "deleted_at">>

Names(schema) == [i \in 1..Len(schema) |-> schema[i].name]

\* SchemaCollection::sql_names: the projection list of a schema
SchemaCollection_sql_names(schema) == SystemColumns \o Names(schema)

\* SchemaCollection::contains: index of the declaration equal (by name) to decl
SchemaCollection_contains(schema, decl) == Position(schema, decl.name)

\* KeyValueCollection::sql_names: the keys of the typed fields
KeyValueCollection_sql_names(params) == [i \in 1..Len(params) |-> params[i].key]

\* KeyValueCollection::sql_values
KeyValueCollection_sql_values(params) == [i \in 1..Len(params) |-> params[i].value]

\* variant of make_row_statement that leaves out the DEFAULT clause
make_row_statement_no_default(decl) ==
    [name     |-> decl.name,
     sql_type |-> CASE decl.column_type = "BOOL" -> "VARCHAR(5)"
                    [] decl.column_type = "INT" -> "INTEGER"
                    [] decl.column_type = "REAL" -> "REAL"
                    [] decl.column_type = "TEXT" -> "TEXT"
                    [] OTHER -> "VARCHAR(" \o ToString(decl.max_length) \o ")",
     not_null |-> ~decl.nullable,
     dflt     |-> None,
     unique   |-> decl.unique]

\* make_row_statement: the column definition generated for a declaration
make_row_statement(decl) ==
    [name     |-> decl.name,
     sql_type |-> CASE decl.column_type = "BOOL" -> "VARCHAR(5)"
                    [] decl.column_type = "INT" -> "INTEGER"
                    [] decl.column_type = "REAL" -> "REAL"
                    [] decl.column_type = "TEXT" -> "TEXT"
                    [] OTHER -> "VARCHAR(" \o ToString(decl.max_length) \o ")",
     not_null |-> ~decl.nullable,
     dflt     |-> IF decl.default = "NULL" THEN None
                  ELSE IF decl.default = "CURRENT_TIMESTAMP" THEN Some([now |-> TRUE, text |-> ""])
                  ELSE Some([now |-> FALSE, text |-> decl.default]),
     unique   |-> decl.unique]

\* variant of make_temp_inventory_table that lays the declared columns out
\* last to first
make_temp_inventory_table_reversed(declarations) ==
    [i \in 1..Len(declarations) |->
       make_row_statement(declarations[Len(declarations) + 1 - i])]

\* make_temp_inventory_table: id, created_at, updated_at, deleted_at are
\* fixed; the declared columns follow in collection order
make_temp_inventory_table(declarations) ==
    [i \in 1..Len(declarations) |-> make_row_statement(declarations[i])]

\* STRFTIME('%Y-%m-%d %H:%M:%f', 'NOW') at clock value t
Strftime(t) == ToString(t)

\* the value a column takes when an INSERT does not name it
\* variant of DefaultValue in which CURRENT_TIMESTAMP is kept as a literal
DefaultValue_literal(col, t) ==
    IF col.dflt = None THEN None
    ELSE IF col.dflt[1].now THEN Some("CURRENT_TIMESTAMP")
    ELSE Some(col.dflt[1].text)

DefaultValue(col, t) ==
    IF col.dflt = None THEN None
    ELSE IF col.dflt[1].now THEN Some(Strftime(t))
    ELSE Some(col.dflt[1].text)

TableNames(cols) == {cols[i].name : i \in 1..Len(cols)}

\* variant of ConstraintsHold without the UNIQUE constraint
ConstraintsHold_not_unique(cols, rows) ==
    /\ \A i \in 1..Len(rows) : \A k \in 1..Len(cols) :
          cols[k].not_null => rows[i].vals[cols[k].name] # None
    /\ \A i, j \in 1..Len(rows) : i # j => rows[i].id # rows[j].id

\* variant of ConstraintsHold without the NOT NULL constraint
ConstraintsHold_nullable(cols, rows) ==
    /\ \A k \in 1..Len(cols) : cols[k].unique =>
          \A i, j \in 1..Len(rows) :
             (i # j /\ rows[i].vals[cols[k].name] # None)
                => rows[i].vals[cols[k].name] # rows[j].vals[cols[k].name]
    /\ \A i, j \in 1..Len(rows) : i # j => rows[i].id # rows[j].id

\* NOT NULL and UNIQUE constraints of the declared columns
ConstraintsHold(cols, rows) ==
    /\ \A i \in 1..Len(rows) : \A k \in 1..Len(cols) :
          cols[k].not_null => rows[i].vals[cols[k].name] # None
    /\ \A k \in 1..Len(cols) : cols[k].unique =>
          \A i, j \in 1..Len(rows) :
             (i # j /\ rows[i].vals[cols[k].name] # None)
                => rows[i].vals[cols[k].name] # rows[j].vals[cols[k].name]
    /\ \A i, j \in 1..Len(rows) : i # j => rows[i].id # rows[j].id

\* AUTOINCREMENT: one more than the largest id
NextId(rows) ==
    IF rows = <<>> THEN 1
    ELSE 1 + (CHOOSE m \in {rows[i].id : i \in 1..Len(rows)} :
                \A i \in 1..Len(rows) : rows[i].id <= m)

\* variant of the copy that carries the row identity but not deleted_at
copy_table_undeleting(cols, src_cols, src_rows, temp_cols, t) ==
    [ok |-> TRUE,
     rows |-> [i \in 1..Len(src_rows) |->
                 [src_rows[i] EXCEPT
                    !.deleted_at = None,
                    !.vals = [c \in TableNames(temp_cols) |->
                                IF c \in TableNames(src_cols) THEN src_rows[i].vals[c]
                                ELSE None]]]]

\* variant of the copy in which every copied row takes the creation
\* default of the fresh table
copy_table_recreating(cols, src_cols, src_rows, temp_cols, t) ==
    LET named == Range(cols)
        rows == [i \in 1..Len(src_rows) |->
                   [id         |-> IF "id" \in named THEN src_rows[i].id ELSE i,
                    created_at |-> t,
                    updated_at |-> IF "updated_at" \in named THEN src_rows[i].updated_at ELSE t,
                    deleted_at |-> IF "deleted_at" \in named THEN src_rows[i].deleted_at ELSE None,
                    vals       |-> [c \in TableNames(temp_cols) |->
                                      IF c \in named /\ c \in TableNames(src_cols)
                                      THEN src_rows[i].vals[c]
                                      ELSE DefaultValue(
                                             temp_cols[CHOOSE k \in 1..Len(temp_cols) :
                                                         temp_cols[k].name = c], t)]]]
    IN  IF \E c \in named :
              \/ c \notin (Range(SystemColumns) \cup TableNames(src_cols))
              \/ c \notin (Range(SystemColumns) \cup TableNames(temp_cols))
          THEN [ok |-> FALSE, rows |-> <<>>]
        ELSE IF ~ConstraintsHold(temp_cols, rows)
          THEN [ok |-> FALSE, rows |-> <<>>]
        ELSE [ok |-> TRUE, rows |-> rows]

\* variant of the copy that carries the system columns only
copy_table_system_only(cols, src_cols, src_rows, temp_cols, t) ==
    [ok |-> TRUE,
     rows |-> [i \in 1..Len(src_rows) |->
                 [src_rows[i] EXCEPT !.vals = [c \in TableNames(temp_cols) |-> None]]]]

\* "INSERT INTO invman_temp_inventory(cols) SELECT cols FROM invman_inventory":
\* every column named in cols is carried over, every other column of the
\* fresh table takes its default; fails on an unknown column or a violated
\* constraint
copy_table(cols, src_cols, src_rows, temp_cols, t) ==
    LET named == Range(cols)
        rows == [i \in 1..Len(src_rows) |->
                   [id         |-> IF "id" \in named THEN src_rows[i].id ELSE i,
                    created_at |-> IF "created_at" \in named THEN src_rows[i].created_at ELSE t,
                    updated_at |-> IF "updated_at" \in named THEN src_rows[i].updated_at ELSE t,
                    deleted_at |-> IF "deleted_at" \in named THEN src_rows[i].deleted_at ELSE None,
                    vals       |-> [c \in TableNames(temp_cols) |->
                                      IF c \in named /\ c \in TableNames(src_cols)
                                      THEN src_rows[i].vals[c]
                                      ELSE DefaultValue(
                                             temp_cols[CHOOSE k \in 1..Len(temp_cols) :
                                                         temp_cols[k].name = c], t)]]]
    IN  IF \E c \in named :
              \/ c \notin (Range(SystemColumns) \cup TableNames(src_cols))
              \/ c \notin (Range(SystemColumns) \cup TableNames(temp_cols))
          THEN [ok |-> FALSE, rows |-> <<>>]
        ELSE IF ~ConstraintsHold(temp_cols, rows)
          THEN [ok |-> FALSE, rows |-> <<>>]
        ELSE [ok |-> TRUE, rows |-> rows]

(***************************************************************************)
(* Persisted form of the schema registry                                   *)
(***************************************************************************)
FieldNames ==
    <<"name", "display_name", "unique", "max_length", "min_length", "max", "min",
      "nullable", "column_type", "default", "hint", "layout">>

\* variant of to_string that writes max under "min" and min under "max"
to_string_crossed(collection) ==
    [i \in 1..Len(collection) |->
       [k \in 1..Len(FieldNames) |->
          [key |-> FieldNames[k],
           value |-> IF FieldNames[k] = "min" THEN collection[i].max
                     ELSE IF FieldNames[k] = "max" THEN collection[i].min
                     ELSE collection[i][FieldNames[k]]]]]

\* serde_json::to_string(&schema.collection): an array of objects, each a
\* list of key/value members in field order
to_string(collection) ==
    [i \in 1..Len(collection) |->
       [k \in 1..Len(FieldNames) |->
          [key |-> FieldNames[k], value |-> collection[i][FieldNames[k]]]]]

\* serde_json::from_str: each object back into a SchemaDeclaration
from_str(json) ==
    [i \in 1..Len(json) |->
       [f \in Range(FieldNames) |->
          json[i][CHOOSE k \in 1..Len(json[i]) : json[i][k].key = f].value]]

(***************************************************************************)
(* Transactions                                                            *)
(***************************************************************************)
\* variant without rollback: the statements executed so far stay
Rollback_keeps_partial(before, partial) == partial

\* a transaction that is dropped before commit() is rolled back: the
\* database is what it was when the transaction began
Rollback(before, partial) == before

\* variant of the ledger row with the two snapshots exchanged
schema_tx_row_swapped(id, user, action_no, old_schema_str, new_schema_str) ==
    [id |-> id, dispatcher |-> user.id, action_no |-> action_no,
     from_val |-> new_schema_str, to_val |-> old_schema_str]

\* "INSERT INTO invman_inventory_schema_tx (dispatcher, action_no, from_val,
\* to_val)": the ledger row of one schema change
schema_tx_row(id, user, action_no, old_schema_str, new_schema_str) ==
    [id |-> id, dispatcher |-> user.id, action_no |-> action_no,
     from_val |-> old_schema_str, to_val |-> new_schema_str]

\* the statements of alter_inventory_table, in order
AlterSteps ==
    <<"create", "copy", "drop", "rename", "trigger", "insert_schema_tx",
      "update_config", "commit">>

\* alter_inventory_table: rebuild the record table for new_schema, record
\* the change; fail_at names the statement the storage engine fails (0: none)
alter_inventory_table(d, new_schema, old_schema, action_no, user, t, fail_at) ==
    LET old_schema_str == to_string(old_schema)
        new_schema_str == to_string(new_schema)
        temp_cols == make_temp_inventory_table(new_schema)
        cols == IF action_no = "Alter" THEN SchemaCollection_sql_names(old_schema)
                ELSE SchemaCollection_sql_names(new_schema)
        copied == copy_table(cols, d.inventory_cols, d.inventory_rows, temp_cols, t)
        \* after DROP TABLE invman_inventory
        w3 == [d EXCEPT !.inventory_cols = <<>>, !.inventory_rows = <<>>]
        \* after ALTER TABLE invman_temp_inventory RENAME TO invman_inventory
        w4 == [d EXCEPT !.inventory_cols = temp_cols, !.inventory_rows = copied.rows]
        w6 == [w4 EXCEPT !.schema_tx = Append(@,
                  schema_tx_row(Len(@) + 1, user, action_no, old_schema_str, new_schema_str))]
        w7 == [w6 EXCEPT !.config_value = new_schema_str]
        failed == IF fail_at = 1 THEN 1
                  ELSE IF fail_at = 2 \/ ~copied.ok THEN 2
                  ELSE fail_at
        partial == CASE failed \in {0, 8} -> w7
                     [] failed \in {1, 2, 3} -> d
                     [] failed = 4 -> w3
                     [] failed \in {5, 6} -> w4
                     [] OTHER -> w6
    IN  IF failed = 0
        THEN [ok |-> TRUE, failed_step |-> 0, db |-> w7]
        ELSE [ok |-> FALSE, failed_step |-> failed, db |-> Rollback(d, partial)]

(***************************************************************************)
(* Typed values                                                            *)
(***************************************************************************)
KeyValueTypeEntry(key, value, column_type) ==
    [key |-> key, value |-> value, column_type |-> column_type]

\* String::to_typed_key_value_entry: "name=value" against the schema
to_typed_key_value_entry(param, declarations) ==
    IF ~param.eq THEN [ok |-> FALSE, err |-> "could not split"]
    ELSE IF is_some(Position(declarations, param.name))
      THEN [ok |-> TRUE,
            entry |-> KeyValueTypeEntry(param.name, Some(param.value),
                        declarations[Position(declarations, param.name)[1]].column_type)]
    ELSE [ok |-> FALSE, err |-> "not in table schema"]

\* variant of to_key_value_collection that skips the parameters it cannot
\* convert
to_key_value_collection_skipping(params, declarations) ==
    LET good == SelectSeq(params,
                    LAMBDA p : to_typed_key_value_entry(p, declarations).ok)
    IN  [ok |-> TRUE,
         collection |-> [i \in 1..Len(good) |->
                           to_typed_key_value_entry(good[i], declarations).entry]]

\* Vec<String>::to_key_value_collection: all entries, or the first error
to_key_value_collection(params, declarations) ==
    IF \A i \in 1..Len(params) : to_typed_key_value_entry(params[i], declarations).ok
    THEN [ok |-> TRUE,
          collection |-> [i \in 1..Len(params) |->
                            to_typed_key_value_entry(params[i], declarations).entry]]
    ELSE [ok |-> FALSE, collection |-> <<>>]

\* the raw value of one column of a stored row
ColumnValue(row, c) ==
    CASE c = "id" -> Some(ToString(row.id))
      [] c = "created_at" -> Some(Strftime(row.created_at))
      [] c = "updated_at" -> Some(Strftime(row.updated_at))
      [] c = "deleted_at" -> IF row.deleted_at = None THEN None
                             ELSE Some(Strftime(row.deleted_at[1]))
      [] OTHER -> row.vals[c]

\* Row::to_typed_key_value: one typed entry per selected column; fails for a
\* column without a declaration
to_typed_key_value(row, select_list, declarations) ==
    IF \E i \in 1..Len(select_list) :
          /\ select_list[i] \notin Range(SystemColumns)
          /\ Position(declarations, select_list[i]) = None
    THEN [ok |-> FALSE, collection |-> <<>>]
    ELSE [ok |-> TRUE,
          collection |-> [i \in 1..Len(select_list) |->
             LET key == select_list[i]
             IN  IF key = "id"
                   THEN KeyValueTypeEntry(key, ColumnValue(row, key), "INT")
                 ELSE IF key \in Range(SystemColumns)
                   THEN KeyValueTypeEntry(key, ColumnValue(row, key), "TEXT")
                 ELSE KeyValueTypeEntry(key, ColumnValue(row, key),
                        declarations[Position(declarations, key)[1]].column_type)]]

\* KeyValueTypeEntry JSON value: null, true/false, quoted string or number
entry_to_json(e) ==
    IF e.value = None THEN "null"
    ELSE IF e.column_type = "BOOL"
      THEN (IF e.value[1] \in {"true", "1"} THEN "true" ELSE "false")
    ELSE IF e.column_type \in {"TEXT", "VARCHAR"}
      THEN "\"" \o e.value[1] \o "\""
    ELSE e.value[1]

\* KeyValueCollection::to_json: the members of the JSON object, in order
to_json(kvc) == [i \in 1..Len(kvc) |-> [key |-> kvc[i].key, json |-> entry_to_json(kvc[i])]]

\* the integer a decimal id text denotes
ParseId(text) ==
    IF \E n \in 0..(MaxTime + 1) : ToString(n) = text
    THEN Some(CHOOSE n \in 0..(MaxTime + 1) : ToString(n) = text)
    ELSE None

\* KeyValueCollection::get_id: the id field of a snapshot
get_id(kvc) ==
    IF \E i \in 1..Len(kvc) : kvc[i].key = "id"
    THEN ParseId(kvc[CHOOSE i \in 1..Len(kvc) : kvc[i].key = "id"].value[1])
    ELSE None

\* str::parse::<i64> on the decimal literals used as inputs
parse_i64(text) ==
    IF \E n \in 0..200 : ToString(n) = text
    THEN Some(CHOOSE n \in 0..200 : ToString(n) = text)
    ELSE None

\* String::check_against_declaration (SchemaDeclarationVerify): the value of
\* a "name=value" parameter checked against the bounds of its declaration.
\* No command handler calls it.
check_against_declaration(param, declarations) ==
    IF ~param.eq THEN [ok |-> FALSE, err |-> "not in valid schema notation"]
    ELSE IF Position(declarations, param.name) = None
      THEN [ok |-> FALSE, err |-> "not found in schema declaration"]
    ELSE LET schema == declarations[Position(declarations, param.name)[1]]
             value == param.value
         IN  CASE schema.column_type = "BOOL" ->
                    IF value \in {"true", "TRUE", "True"}
                      THEN [ok |-> TRUE, name |-> param.name, value |-> "true"]
                    ELSE IF value \in {"false", "FALSE", "False"}
                      THEN [ok |-> TRUE, name |-> param.name, value |-> "false"]
                    ELSE [ok |-> FALSE, err |-> "not of boolean type"]
               [] schema.column_type \in {"VARCHAR", "TEXT"} ->
                    IF Len(value) < schema.min_length
                      THEN [ok |-> FALSE, err |-> "length is less than min length"]
                    ELSE IF Len(value) > schema.max_length
                      THEN [ok |-> FALSE, err |-> "length is more than max length"]
                    ELSE [ok |-> TRUE, name |-> param.name,
                          value |-> "\"" \o value \o "\""]
               [] schema.column_type = "INT" ->
                    IF parse_i64(value) = None
                      THEN [ok |-> FALSE, err |-> "not a valid integer type"]
                    ELSE IF schema.min > 0 /\ parse_i64(value)[1] < schema.min
                      THEN [ok |-> FALSE, err |-> "smaller than min"]
                    ELSE IF schema.max > 0 /\ parse_i64(value)[1] > schema.max
                      THEN [ok |-> FALSE, err |-> "larger than max"]
                    ELSE [ok |-> TRUE, name |-> param.name, value |-> value]
               [] OTHER ->
                    IF parse_i64(value) = None
                      THEN [ok |-> FALSE, err |-> "not a valid real type"]
                    ELSE IF parse_i64(value)[1] < schema.min
                      THEN [ok |-> FALSE, err |-> "smaller than min"]
                    ELSE IF parse_i64(value)[1] > schema.max
                      THEN [ok |-> FALSE, err |-> "larger than max"]
                    ELSE [ok |-> TRUE, name |-> param.name, value |-> value]

(***************************************************************************)
(* Record store statements                                                 *)
(***************************************************************************)
\* "SELECT <select_list> FROM invman_inventory WHERE id=?1" as typed values
query_row(d, select_list, identifier, declarations) ==
    LET hits == {i \in 1..Len(d.inventory_rows) :
                   ToString(d.inventory_rows[i].id) = identifier}
    IN  IF \E i \in 1..Len(select_list) :
              select_list[i] \notin (Range(SystemColumns) \cup TableNames(d.inventory_cols))
          THEN [ok |-> FALSE, collection |-> <<>>]
        ELSE IF hits = {}
          THEN [ok |-> FALSE, collection |-> <<>>]
        ELSE to_typed_key_value(d.inventory_rows[CHOOSE i \in hits : TRUE],
                                select_list, declarations)

\* variant of latest_schema_id that reads the oldest schema-ledger id
latest_schema_id_oldest(d) ==
    IF d.schema_tx = <<>> THEN None ELSE Some(d.schema_tx[1].id)

\* "SELECT MAX(id) FROM invman_inventory_schema_tx" read into an integer id
\* variant of latest_schema_id that names the version after the newest
latest_schema_id_unwritten(d) == Some(Len(d.schema_tx) + 1)

latest_schema_id(d) ==
    IF d.schema_tx = <<>> THEN None ELSE Some(d.schema_tx[Len(d.schema_tx)].id)

\* variant that writes the record-ledger row without the event-ledger row
append_audit_no_event(d, user, schema_id, inventory_id, action_no, event_no, from_val, to_val) ==
    [d EXCEPT
       !.inventory_tx = Append(@,
           [id |-> Len(@) + 1, dispatcher |-> user.id, schema_id |-> schema_id,
            inventory_id |-> inventory_id, action_no |-> action_no,
            from_val |-> from_val, to_val |-> to_val])]

\* variant of append_audit that writes the record-ledger row over the newest
\* one instead of after it
append_audit_replacing(d, user, schema_id, inventory_id, action_no, event_no, from_val, to_val) ==
    LET tx_id == IF d.inventory_tx = <<>> THEN 1 ELSE Len(d.inventory_tx)
        row == [id |-> tx_id, dispatcher |-> user.id, schema_id |-> schema_id,
                inventory_id |-> inventory_id, action_no |-> action_no,
                from_val |-> from_val, to_val |-> to_val]
    IN  [d EXCEPT
           !.inventory_tx = IF @ = <<>> THEN <<row>> ELSE [@ EXCEPT ![Len(@)] = row],
           !.event_tx = Append(@,
               [id |-> Len(@) + 1, action_no |-> event_no, dispatcher |-> user.id,
                target |-> tx_id])]

\* variant of append_audit whose event-ledger row points at the record
\* instead of the record-ledger row
append_audit_targeting_record(d, user, schema_id, inventory_id, action_no, event_no, from_val, to_val) ==
    LET tx_id == Len(d.inventory_tx) + 1
    IN  [d EXCEPT
           !.inventory_tx = Append(@,
               [id |-> tx_id, dispatcher |-> user.id, schema_id |-> schema_id,
                inventory_id |-> inventory_id, action_no |-> action_no,
                from_val |-> from_val, to_val |-> to_val]),
           !.event_tx = Append(@,
               [id |-> Len(@) + 1, action_no |-> event_no, dispatcher |-> user.id,
                target |-> inventory_id])]

\* the record-ledger row and the event-ledger row that points at it
append_audit(d, user, schema_id, inventory_id, action_no, event_no, from_val, to_val) ==
    LET tx_id == Len(d.inventory_tx) + 1
    IN  [d EXCEPT
           !.inventory_tx = Append(@,
               [id |-> tx_id, dispatcher |-> user.id, schema_id |-> schema_id,
                inventory_id |-> inventory_id, action_no |-> action_no,
                from_val |-> from_val, to_val |-> to_val]),
           !.event_tx = Append(@,
               [id |-> Len(@) + 1, action_no |-> event_no, dispatcher |-> user.id,
                target |-> tx_id])]

\* the row an INSERT or UPDATE statement writes: named columns take the bound
\* values, the others keep `base`
WithValues(cols, base, params) ==
    [c \in TableNames(cols) |->
       IF \E i \in 1..Len(params) : params[i].key = c
       THEN params[CHOOSE i \in 1..Len(params) : params[i].key = c].value
       ELSE base[c]]

UnknownColumn(cols, params) ==
    \E i \in 1..Len(params) : params[i].key \notin TableNames(cols)

ColumnDefaults(cols, t) ==
    [c \in TableNames(cols) |->
       DefaultValue(cols[CHOOSE k \in 1..Len(cols) : cols[k].name = c], t)]

Fail(d, step) == [ok |-> FALSE, failed_step |-> step, db |-> d]

(***************************************************************************)
(* InvManDBPool operations                                                 *)
(***************************************************************************)
\* variant of inventory_add that reads the snapshot of the oldest record
\* instead of the one just inserted
inventory_add_oldest_snapshot(d, params, cfg, user, t, fail_at) ==
    LET select_list == SystemColumns \o SchemaCollection_sql_names(cfg)
        latest_schema == latest_schema_id(d)
        item_id == NextId(d.inventory_rows)
        row == [id |-> item_id, created_at |-> t, updated_at |-> t, deleted_at |-> None,
                vals |-> WithValues(d.inventory_cols, ColumnDefaults(d.inventory_cols, t), params)]
        w2 == [d EXCEPT !.inventory_rows = Append(@, row)]
        item == query_row(w2, select_list, ToString(w2.inventory_rows[1].id), cfg)
        w6 == append_audit(w2, user, latest_schema[1], item_id, "Add", "InventoryAdd",
                           None, Some(to_json(item.collection)))
    IN  IF fail_at = 1 \/ latest_schema = None THEN Fail(Rollback(d, d), 1)
        ELSE IF \/ fail_at = 2
                \/ params = <<>>
                \/ UnknownColumn(d.inventory_cols, params)
                \/ ~ConstraintsHold(d.inventory_cols, w2.inventory_rows)
          THEN Fail(Rollback(d, d), 2)
        ELSE IF fail_at = 3 \/ ~item.ok THEN Fail(Rollback(d, w2), 3)
        ELSE IF fail_at = 4 THEN Fail(Rollback(d, w2), 4)
        ELSE IF fail_at = 5 THEN Fail(Rollback(d, w6), 5)
        ELSE [ok |-> TRUE, failed_step |-> 0, db |-> w6]

\* inventory_add
inventory_add(d, params, cfg, user, t, fail_at) ==
    LET select_list == SystemColumns \o SchemaCollection_sql_names(cfg)
        latest_schema == latest_schema_id(d)
        item_id == NextId(d.inventory_rows)
        row == [id |-> item_id, created_at |-> t, updated_at |-> t, deleted_at |-> None,
                vals |-> WithValues(d.inventory_cols, ColumnDefaults(d.inventory_cols, t), params)]
        w2 == [d EXCEPT !.inventory_rows = Append(@, row)]
        item == query_row(w2, select_list, ToString(item_id), cfg)
        w6 == append_audit(w2, user, latest_schema[1], item_id, "Add", "InventoryAdd",
                           None, Some(to_json(item.collection)))
    IN  IF fail_at = 1 \/ latest_schema = None THEN Fail(Rollback(d, d), 1)
        ELSE IF \/ fail_at = 2
                \/ params = <<>>
                \/ UnknownColumn(d.inventory_cols, params)
                \/ ~ConstraintsHold(d.inventory_cols, w2.inventory_rows)
          THEN Fail(Rollback(d, d), 2)
        ELSE IF fail_at = 3 \/ ~item.ok THEN Fail(Rollback(d, w2), 3)
        ELSE IF fail_at = 4 THEN Fail(Rollback(d, w2), 4)
        ELSE IF fail_at = 5 THEN Fail(Rollback(d, w6), 5)
        ELSE [ok |-> TRUE, failed_step |-> 0, db |-> w6]

\* inventory_list: without a raw filter; limit <= 0 means no LIMIT clause
\* InventoryListProps: the limit, the raw SQL suffix and its parameters
ListProps(limit, raw, params) == [limit |-> limit, raw |-> raw, params |-> params]

\* the first n rows
Take(rows, n) == IF n < Len(rows) THEN SubSeq(rows, 1, n) ELSE rows

\* the SQL suffixes given as --raw
RawFilters == {"WHERE deleted_at IS NULL", "WHERE id = ?1", "LIMIT 1"}

\* the number of parameters the statement with this suffix expects
Placeholders(raw) == IF raw = "WHERE id = ?1" THEN 1 ELSE 0

\* the rows the SELECT with this suffix returns, in table order
RawSelect(raw, rows, params) ==
    CASE raw = "WHERE deleted_at IS NULL" ->
            SelectSeq(rows, LAMBDA row : row.deleted_at = None)
      [] raw = "WHERE id = ?1" ->
            SelectSeq(rows, LAMBDA row : ToString(row.id) = params[1])
      [] raw = "LIMIT 1" -> Take(rows, 1)

\* variant of inventory_list that appends the LIMIT clause after a raw
\* suffix too
inventory_list_limiting(d, props, cfg) ==
    LET select_list == SystemColumns \o SchemaCollection_sql_names(cfg)
        expected == IF props.raw = None THEN 0 ELSE Placeholders(props.raw[1])
        raw_rows == IF props.raw = None \/ Len(props.params) # expected
                    THEN d.inventory_rows
                    ELSE RawSelect(props.raw[1], d.inventory_rows, props.params)
        rows == IF props.limit > 0 THEN Take(raw_rows, props.limit) ELSE raw_rows
    IN  IF \E i \in 1..Len(select_list) :
              select_list[i] \notin (Range(SystemColumns) \cup TableNames(d.inventory_cols))
        THEN [ok |-> FALSE, entries |-> <<>>]
        ELSE IF Len(props.params) # expected
        THEN [ok |-> FALSE, entries |-> <<>>]
        ELSE [ok |-> TRUE,
              entries |-> [i \in 1..Len(rows) |->
                 to_typed_key_value(rows[i], select_list, cfg).collection]]

\* inventory_list: the SELECT over the system and the declared columns,
\* followed by the raw suffix or, without one, by LIMIT when limit > 0;
\* the parameters are bound to the statement, which fails when their number
\* is not the number of its placeholders
inventory_list(d, props, cfg) ==
    LET select_list == SystemColumns \o SchemaCollection_sql_names(cfg)
        expected == IF props.raw = None THEN 0 ELSE Placeholders(props.raw[1])
        rows == IF Len(props.params) # expected THEN <<>>
                ELSE IF props.raw # None
                THEN RawSelect(props.raw[1], d.inventory_rows, props.params)
                ELSE IF props.limit > 0 THEN Take(d.inventory_rows, props.limit)
                ELSE d.inventory_rows
    IN  IF \E i \in 1..Len(select_list) :
              select_list[i] \notin (Range(SystemColumns) \cup TableNames(d.inventory_cols))
        THEN [ok |-> FALSE, entries |-> <<>>]
        ELSE IF Len(props.params) # expected
        THEN [ok |-> FALSE, entries |-> <<>>]
        ELSE [ok |-> TRUE,
              entries |-> [i \in 1..Len(rows) |->
                 to_typed_key_value(rows[i], select_list, cfg).collection]]

\* variant of finish_mutation that logs the snapshot read before the UPDATE
\* as the after-snapshot too
finish_mutation_stale_after(d, w2, before_item, identifier, cfg, user, action_no, event_no, fail_at) ==
    LET select_list == SchemaCollection_sql_names(cfg)
        after_item == query_row(w2, select_list, identifier, cfg)
        latest_schema == latest_schema_id(w2)
        id == get_id(before_item.collection)
        w6 == append_audit(w2, user, latest_schema[1], id[1], action_no, event_no,
                           Some(to_json(before_item.collection)),
                           Some(to_json(before_item.collection)))
    IN  IF fail_at = 3 \/ ~after_item.ok THEN Fail(Rollback(d, w2), 3)
        ELSE IF fail_at = 4 \/ latest_schema = None \/ id = None THEN Fail(Rollback(d, w2), 4)
        ELSE IF fail_at = 5 THEN Fail(Rollback(d, w6), 5)
        ELSE [ok |-> TRUE, failed_step |-> 0, db |-> w6]

\* the statements shared by inventory_edit and inventory_remove after the
\* UPDATE: after-snapshot, latest schema id, the two ledger rows, commit
finish_mutation(d, w2, before_item, identifier, cfg, user, action_no, event_no, fail_at) ==
    LET select_list == SchemaCollection_sql_names(cfg)
        after_item == query_row(w2, select_list, identifier, cfg)
        latest_schema == latest_schema_id(w2)
        id == get_id(before_item.collection)
        w6 == append_audit(w2, user, latest_schema[1], id[1], action_no, event_no,
                           Some(to_json(before_item.collection)),
                           Some(to_json(after_item.collection)))
    IN  IF fail_at = 3 \/ ~after_item.ok THEN Fail(Rollback(d, w2), 3)
        ELSE IF fail_at = 4 \/ latest_schema = None \/ id = None THEN Fail(Rollback(d, w2), 4)
        ELSE IF fail_at = 5 THEN Fail(Rollback(d, w6), 5)
        ELSE [ok |-> TRUE, failed_step |-> 0, db |-> w6]

\* variant of inventory_edit whose statements add "AND deleted_at IS NULL"
inventory_edit_active_only(d, identifier, params, cfg, user, t, fail_at) ==
    LET select_list == SchemaCollection_sql_names(cfg)
        active == [d EXCEPT !.inventory_rows =
                      SelectSeq(@, LAMBDA row : row.deleted_at = None)]
        before_item == query_row(active, select_list, identifier, cfg)
        rows == [i \in 1..Len(d.inventory_rows) |->
                   IF ToString(d.inventory_rows[i].id) = identifier
                   THEN [d.inventory_rows[i] EXCEPT
                           !.vals = WithValues(d.inventory_cols, @, params),
                           !.updated_at = t]
                   ELSE d.inventory_rows[i]]
        w2 == [d EXCEPT !.inventory_rows = rows]
    IN  IF fail_at = 1 \/ ~before_item.ok THEN Fail(Rollback(d, d), 1)
        ELSE IF \/ fail_at = 2
                \/ params = <<>>
                \/ UnknownColumn(d.inventory_cols, params)
                \/ ~ConstraintsHold(d.inventory_cols, rows)
          THEN Fail(Rollback(d, d), 2)
        ELSE finish_mutation(d, w2, before_item, identifier, cfg, user,
                             "Edit", "InventoryEdit", fail_at)

\* inventory_edit
inventory_edit(d, identifier, params, cfg, user, t, fail_at) ==
    LET select_list == SchemaCollection_sql_names(cfg)
        before_item == query_row(d, select_list, identifier, cfg)
        rows == [i \in 1..Len(d.inventory_rows) |->
                   IF ToString(d.inventory_rows[i].id) = identifier
                   THEN [d.inventory_rows[i] EXCEPT
                           !.vals = WithValues(d.inventory_cols, @, params),
                           !.updated_at = t]
                   ELSE d.inventory_rows[i]]
        w2 == [d EXCEPT !.inventory_rows = rows]
    IN  IF fail_at = 1 \/ ~before_item.ok THEN Fail(Rollback(d, d), 1)
        ELSE IF \/ fail_at = 2
                \/ params = <<>>
                \/ UnknownColumn(d.inventory_cols, params)
                \/ ~ConstraintsHold(d.inventory_cols, rows)
          THEN Fail(Rollback(d, d), 2)
        ELSE finish_mutation(d, w2, before_item, identifier, cfg, user,
                             "Edit", "InventoryEdit", fail_at)

\* variant of inventory_remove that refuses a record that is already
\* soft-deleted
inventory_remove_once(d, identifier, cfg, user, t, fail_at) ==
    LET select_list == SchemaCollection_sql_names(cfg)
        before_item == query_row(d, select_list, identifier, cfg)
        rows == [i \in 1..Len(d.inventory_rows) |->
                   IF /\ ToString(d.inventory_rows[i].id) = identifier
                      /\ d.inventory_rows[i].deleted_at = None
                   THEN [d.inventory_rows[i] EXCEPT
                           !.deleted_at = Some(t), !.updated_at = t]
                   ELSE d.inventory_rows[i]]
        w2 == [d EXCEPT !.inventory_rows = rows]
    IN  IF fail_at = 1 \/ ~before_item.ok THEN Fail(Rollback(d, d), 1)
        ELSE IF fail_at = 2 \/ rows = d.inventory_rows THEN Fail(Rollback(d, d), 2)
        ELSE finish_mutation(d, w2, before_item, identifier, cfg, user,
                             "Delete", "InventoryRemove", fail_at)

\* variant of inventory_remove whose UPDATE lacks "AND deleted_at IS NULL"
inventory_remove_restamping(d, identifier, cfg, user, t, fail_at) ==
    LET select_list == SchemaCollection_sql_names(cfg)
        before_item == query_row(d, select_list, identifier, cfg)
        rows == [i \in 1..Len(d.inventory_rows) |->
                   IF ToString(d.inventory_rows[i].id) = identifier
                   THEN [d.inventory_rows[i] EXCEPT
                           !.deleted_at = Some(t), !.updated_at = t]
                   ELSE d.inventory_rows[i]]
        w2 == [d EXCEPT !.inventory_rows = rows]
    IN  IF fail_at = 1 \/ ~before_item.ok THEN Fail(Rollback(d, d), 1)
        ELSE IF fail_at = 2 THEN Fail(Rollback(d, d), 2)
        ELSE finish_mutation(d, w2, before_item, identifier, cfg, user,
                             "Delete", "InventoryRemove", fail_at)

\* variant of inventory_remove that reports success when the identifier
\* matches no row
inventory_remove_silent(d, identifier, cfg, user, t, fail_at) ==
    LET select_list == SchemaCollection_sql_names(cfg)
        before_item == query_row(d, select_list, identifier, cfg)
        rows == [i \in 1..Len(d.inventory_rows) |->
                   IF /\ ToString(d.inventory_rows[i].id) = identifier
                      /\ d.inventory_rows[i].deleted_at = None
                   THEN [d.inventory_rows[i] EXCEPT
                           !.deleted_at = Some(t), !.updated_at = t]
                   ELSE d.inventory_rows[i]]
        w2 == [d EXCEPT !.inventory_rows = rows]
    IN  IF fail_at = 1 THEN Fail(Rollback(d, d), 1)
        ELSE IF ~before_item.ok THEN [ok |-> TRUE, failed_step |-> 0, db |-> d]
        ELSE IF fail_at = 2 THEN Fail(Rollback(d, d), 2)
        ELSE finish_mutation(d, w2, before_item, identifier, cfg, user,
                             "Delete", "InventoryRemove", fail_at)

\* inventory_remove
inventory_remove(d, identifier, cfg, user, t, fail_at) ==
    LET select_list == SchemaCollection_sql_names(cfg)
        before_item == query_row(d, select_list, identifier, cfg)
        rows == [i \in 1..Len(d.inventory_rows) |->
                   IF /\ ToString(d.inventory_rows[i].id) = identifier
                      /\ d.inventory_rows[i].deleted_at = None
                   THEN [d.inventory_rows[i] EXCEPT
                           !.deleted_at = Some(t), !.updated_at = t]
                   ELSE d.inventory_rows[i]]
        w2 == [d EXCEPT !.inventory_rows = rows]
    IN  IF fail_at = 1 \/ ~before_item.ok THEN Fail(Rollback(d, d), 1)
        ELSE IF fail_at = 2 THEN Fail(Rollback(d, d), 2)
        ELSE finish_mutation(d, w2, before_item, identifier, cfg, user,
                             "Delete", "InventoryRemove", fail_at)

\* variant of schema_alter that pushes the declaration without removing the
\* one of the same name
schema_alter_pushing(d, cfg, decl, user, t, fail_at) ==
    LET old_schema == cfg
        new_schema == Append(cfg, decl)
        r == alter_inventory_table(d, new_schema, old_schema, "Alter", user, t, fail_at)
    IN  [ok |-> r.ok, failed_step |-> r.failed_step, stage |-> "storage",
         db |-> r.db, config |-> new_schema]

\* schema_alter: the collection is changed in place, then the table rebuilt
schema_alter(d, cfg, decl, user, t, fail_at) ==
    LET old_schema == cfg
        idx == SchemaCollection_contains(cfg, decl)
        removed == IF is_some(idx) THEN RemoveAt(cfg, idx[1]) ELSE cfg
        new_schema == Append(removed, decl)
        r == alter_inventory_table(d, new_schema, old_schema, "Alter", user, t, fail_at)
    IN  [ok |-> r.ok, failed_step |-> r.failed_step, stage |-> "storage",
         db |-> r.db, config |-> new_schema]

\* variant of schema_remove that rebuilds the table without dropping the
\* declaration from the collection
schema_remove_keeps_column(d, cfg, name, user, t, fail_at) ==
    LET r == alter_inventory_table(d, cfg, cfg, "Remove", user, t, fail_at)
    IN  IF ~is_some(Position(cfg, name))
        THEN [ok |-> FALSE, failed_step |-> 0, stage |-> "not_found",
              db |-> d, config |-> cfg]
        ELSE [ok |-> r.ok, failed_step |-> r.failed_step, stage |-> "storage",
              db |-> r.db, config |-> cfg]

\* variant of schema_remove without the check that the name is declared
schema_remove_ignores_missing(d, cfg, name, user, t, fail_at) ==
    LET id == Position(cfg, name)
        new_schema == IF is_some(id) THEN RemoveAt(cfg, id[1]) ELSE cfg
        r == alter_inventory_table(d, new_schema, cfg, "Remove", user, t, fail_at)
    IN  [ok |-> r.ok, failed_step |-> r.failed_step, stage |-> "storage",
         db |-> r.db, config |-> new_schema]

\* schema_remove
schema_remove(d, cfg, name, user, t, fail_at) ==
    LET old_schema == cfg
        id == Position(cfg, name)
        new_schema == RemoveAt(cfg, id[1])
        r == alter_inventory_table(d, new_schema, old_schema, "Remove", user, t, fail_at)
    IN  IF ~is_some(id)
        THEN [ok |-> FALSE, failed_step |-> 0, stage |-> "not_found",
              db |-> d, config |-> cfg]
        ELSE [ok |-> r.ok, failed_step |-> r.failed_step, stage |-> "storage",
              db |-> r.db, config |-> new_schema]

\* get_config: the schema collection parsed from the persisted registry
get_config(d) == from_str(d.config_value)

\* user_auth: the id of the user with that name and password
user_auth(d, username, password) ==
    LET hits == {i \in 1..Len(d.users) : d.users[i].username = username}
    IN  IF hits = {} THEN [ok |-> FALSE, id |-> 0]
        ELSE LET u == d.users[CHOOSE i \in hits : \A j \in hits : j <= i]
             IN  IF u.id = 0 \/ u.password = "" \/ u.password # password
                 THEN [ok |-> FALSE, id |-> 0]
                 ELSE [ok |-> TRUE, id |-> u.id]

\* variant of authenticate that lets a token through, as the default user,
\* when user_auth rejects its credentials
authenticate_lenient(d, auth) ==
    LET token == unwrap_or(auth, [colon |-> FALSE, text |-> ""])
    IN  IF ~token.colon /\ token.text = "" THEN [ok |-> FALSE, id |-> 0]
        ELSE IF ~token.colon THEN [ok |-> FALSE, id |-> 0]
        ELSE [ok |-> TRUE, id |-> user_auth(d, token.username, token.password).id]

\* CommandContext::authenticate: an absent token counts as the empty one
authenticate(d, auth) ==
    LET token == unwrap_or(auth, [colon |-> FALSE, text |-> ""])
    IN  IF ~token.colon /\ token.text = "" THEN [ok |-> FALSE, id |-> 0]
        ELSE IF ~token.colon THEN [ok |-> FALSE, id |-> 0]
        ELSE user_auth(d, token.username, token.password)

\* DBUser::can_write_table
can_write_table(user, table) == TRUE

\* DBUser::can_write_collection
can_write_collection(user, table, entries) == TRUE

\* DBUser::can_read_table
can_read_table(user, table) == TRUE

(***************************************************************************)
(* Command handlers                                                        *)
(***************************************************************************)
Outcome(ok, stage, failed_step, d, cfg, user, result) ==
    [ok |-> ok, stage |-> stage, failed_step |-> failed_step, db |-> d,
     config |-> cfg, user |-> user, result |-> result]

\* InventorySchemaAlterArgs::alter
alter(d, cfg, auth, args, t, fail_at) ==
    LET user == authenticate(d, auth)
        decl == SchemaDeclaration_new(args)
        r == schema_alter(d, cfg, decl.decl, user, t, fail_at)
    IN  IF ~user.ok THEN Outcome(FALSE, "auth", 0, d, cfg, 0, <<>>)
        ELSE IF ~can_write_table(user, "config")
          THEN Outcome(FALSE, "permission", 0, d, cfg, user.id, <<>>)
        ELSE IF ~decl.ok THEN Outcome(FALSE, "validate", 0, d, cfg, user.id, <<>>)
        ELSE Outcome(r.ok, r.stage, r.failed_step, r.db, r.config, user.id, <<>>)

\* InventorySchemaRemoveArgs::remove
schema_remove_cmd(d, cfg, auth, name, t, fail_at) ==
    LET user == authenticate(d, auth)
        r == schema_remove(d, cfg, name, user, t, fail_at)
    IN  IF ~user.ok THEN Outcome(FALSE, "auth", 0, d, cfg, 0, <<>>)
        ELSE Outcome(r.ok, r.stage, r.failed_step, r.db, r.config, user.id, <<>>)

\* InventoryAddArgs::add
add(d, cfg, auth, params, t, fail_at) ==
    LET user == authenticate(d, auth)
        entries == to_key_value_collection(params, cfg)
        r == inventory_add(d, entries.collection, cfg, user, t, fail_at)
    IN  IF ~user.ok THEN Outcome(FALSE, "auth", 0, d, cfg, 0, <<>>)
        ELSE IF ~entries.ok THEN Outcome(FALSE, "parse", 0, d, cfg, user.id, <<>>)
        ELSE IF ~can_write_collection(user, "inventory", entries.collection)
          THEN Outcome(FALSE, "permission", 0, d, cfg, user.id, <<>>)
        ELSE Outcome(r.ok, "storage", r.failed_step, r.db, cfg, user.id, <<>>)

\* InventoryEditArgs::edit
edit(d, cfg, auth, identifier, set, t, fail_at) ==
    LET user == authenticate(d, auth)
        entries == to_key_value_collection(set, cfg)
        r == inventory_edit(d, identifier, entries.collection, cfg, user, t, fail_at)
    IN  IF ~user.ok THEN Outcome(FALSE, "auth", 0, d, cfg, 0, <<>>)
        ELSE IF ~entries.ok THEN Outcome(FALSE, "parse", 0, d, cfg, user.id, <<>>)
        ELSE Outcome(r.ok, "storage", r.failed_step, r.db, cfg, user.id, <<>>)

\* InventoryRemoveArgs::remove
remove(d, cfg, auth, identifier, t, fail_at) ==
    LET user == authenticate(d, auth)
        r == inventory_remove(d, identifier, cfg, user, t, fail_at)
    IN  IF ~user.ok THEN Outcome(FALSE, "auth", 0, d, cfg, 0, <<>>)
        ELSE Outcome(r.ok, "storage", r.failed_step, r.db, cfg, user.id, <<>>)

\* InventoryListArgs::list
list(d, cfg, auth, args) ==
    LET user == authenticate(d, auth)
        r == inventory_list(d, ListProps(unwrap_or(args.limit, -1), args.raw,
                                         args.params), cfg)
    IN  IF ~user.ok THEN Outcome(FALSE, "auth", 0, d, cfg, 0, <<>>)
        ELSE Outcome(r.ok, "storage", 0, d, cfg, user.id, r.entries)

\* InventorySchemaListArgs::schema_list: the loaded collection, read-only
schema_list(d, cfg, auth) ==
    LET user == authenticate(d, auth)
    IN  IF ~user.ok THEN Outcome(FALSE, "auth", 0, d, cfg, 0, <<>>)
        ELSE IF ~can_read_table(user, "config")
          THEN Outcome(FALSE, "permission", 0, d, cfg, user.id, <<>>)
        ELSE Outcome(TRUE, "done", 0, d, cfg, user.id, to_string(cfg))

(***************************************************************************)
(* State machine                                                           *)
(***************************************************************************)
\* the storage file after create_inital_setup, with one registered user
InitialDb ==
    [users          |-> <<[id |-> 1, username |-> "alice", password |-> "pw"]>>,
     inventory_cols |-> <<>>,
     inventory_rows |-> <<>>,
     config_value   |-> to_string(<<>>),
     schema_tx      |-> <<>>,
     inventory_tx   |-> <<>>,
     event_tx       |-> <<>>]

Init ==
    /\ db = InitialDb
    /\ config = get_config(InitialDb)
    /\ now = 0
    /\ last = [op |-> "start", ok |-> TRUE, stage |-> "done", user |-> 0]

\* commands are run while the clock is below MaxTime
ClockRuns == now < MaxTime

\* one command runs to completion; the clock advances with every commit
Run(op, o) ==
    /\ ClockRuns
    /\ db' = o.db
    /\ config' = o.config
    /\ now' = IF o.db # db THEN now + 1 ELSE now
    /\ last' = [op |-> op, ok |-> o.ok, stage |-> IF o.ok THEN "done" ELSE o.stage,
                user |-> o.user]

\* The arguments of a call that is rejected at authentication are never
\* read: one representative argument is explored for such calls.
Reaches(auth, arg, representative) ==
    authenticate(db, auth).ok \/ arg = representative

AnyAlterArgs == CHOOSE a \in AlterArgsSet : TRUE

AnyName == CHOOSE n \in ColumnNames : TRUE

AnyIdentifier == CHOOSE i \in Identifiers : TRUE

\* Each command is one invocation of the program: main loads the
\* configuration cfg with get_config, builds the context and runs the command.
\* fail_at > 0 makes the storage engine fail that statement of a call that
\* would otherwise succeed.
SchemaAlter ==
    /\ ClockRuns
    /\ \E cfg \in {get_config(db)}, auth \in AuthTokens, args \in AlterArgsSet :
        /\ Reaches(auth, args, AnyAlterArgs)
        /\ \E o0 \in {alter(db, cfg, auth, args, now + 1, 0)} :
              \/ Run("schema_alter", o0)
              \/ /\ o0.ok
                 /\ \E fail_at \in 1..Len(AlterSteps) :
                       \E o \in {alter(db, cfg, auth, args, now + 1, fail_at)} :
                           Run("schema_alter", o)

SchemaRemove ==
    /\ ClockRuns
    /\ \E cfg \in {get_config(db)}, auth \in AuthTokens, name \in ColumnNames :
        /\ Reaches(auth, name, AnyName)
        /\ \E o0 \in {schema_remove_cmd(db, cfg, auth, name, now + 1, 0)} :
              \/ Run("schema_remove", o0)
              \/ /\ o0.ok
                 /\ \E fail_at \in 1..Len(AlterSteps) :
                       \E o \in {schema_remove_cmd(db, cfg, auth, name,
                                                   now + 1, fail_at)} :
                           Run("schema_remove", o)

InventoryAdd ==
    /\ ClockRuns
    /\ \E cfg \in {get_config(db)}, auth \in AuthTokens, params \in ParamVecs :
        /\ Reaches(auth, params, <<>>)
        /\ \E o0 \in {add(db, cfg, auth, params, now + 1, 0)} :
              \/ Run("inventory_add", o0)
              \/ /\ o0.ok
                 /\ \E fail_at \in 1..5 :
                       \E o \in {add(db, cfg, auth, params, now + 1, fail_at)} :
                           Run("inventory_add", o)

InventoryEdit ==
    /\ ClockRuns
    /\ \E cfg \in {get_config(db)}, auth \in AuthTokens,
          identifier \in Identifiers, set \in ParamVecs :
        /\ Reaches(auth, <<identifier, set>>, <<AnyIdentifier, <<>>>>)
        /\ \E o0 \in {edit(db, cfg, auth, identifier, set, now + 1, 0)} :
              \/ Run("inventory_edit", o0)
              \/ /\ o0.ok
                 /\ \E fail_at \in 1..5 :
                       \E o \in {edit(db, cfg, auth, identifier, set,
                                      now + 1, fail_at)} :
                           Run("inventory_edit", o)

InventoryRemove ==
    /\ ClockRuns
    /\ \E cfg \in {get_config(db)}, auth \in AuthTokens, identifier \in Identifiers :
        /\ Reaches(auth, identifier, AnyIdentifier)
        /\ \E o0 \in {remove(db, cfg, auth, identifier, now + 1, 0)} :
              \/ Run("inventory_remove", o0)
              \/ /\ o0.ok
                 /\ \E fail_at \in 1..5 :
                       \E o \in {remove(db, cfg, auth, identifier,
                                        now + 1, fail_at)} :
                           Run("inventory_remove", o)

InventoryList ==
    /\ ClockRuns
    /\ \E cfg \in {get_config(db)}, auth \in AuthTokens, limit \in {None, Some(1)} :
        /\ Reaches(auth, limit, None)
        /\ \E o \in {list(db, cfg, auth, ListArgs(limit, None, <<>>))} :
              Run("inventory_list", o)

SchemaList ==
    /\ ClockRuns
    /\ \E cfg \in {get_config(db)}, auth \in AuthTokens :
        \E o \in {schema_list(db, cfg, auth)} : Run("schema_list", o)

Next ==
    \/ SchemaAlter
    \/ SchemaRemove
    \/ SchemaList
    \/ InventoryAdd
    \/ InventoryEdit
    \/ InventoryRemove
    \/ InventoryList

Spec == Init /\ [][Next]_vars

(***************************************************************************)
(* The declaration validator on its own: one `inventory schema alter` on a *)
(* fresh database, for every combination of the numeric options            *)
(***************************************************************************)
\* the largest value given to --max-length, --min-length, --max and --min
MaxOption == 2

\* an unsigned option: absent, or a value from 0 up
OptionValues == {None} \cup {Some(n) : n \in 0..MaxOption}

\* a name inside and a name outside [a-z\-\_]
DeclNames == {"sku", "Qty"}

\* every column type with every combination of the four numeric options,
\* with and without a default
DeclArgsSet ==
    { [name |-> name, display_name |-> None, unique |-> FALSE,
       max_length |-> max_length, min_length |-> min_length,
       max |-> max, min |-> min, nullable |-> Some(TRUE),
       column_type |-> ctype, default |-> default,
       hint |-> None, layout |-> None] :
         name \in DeclNames, ctype \in ColumnType,
         max_length \in OptionValues, min_length \in OptionValues,
         max \in OptionValues, min \in OptionValues,
         default \in {None, Some("ab")} }

DeclInit ==
    /\ db = InitialDb
    /\ config = get_config(InitialDb)
    /\ now = 0
    /\ \E args \in DeclArgsSet :
          last = [op |-> "start", ok |-> TRUE, stage |-> "done", user |-> 0,
                  args |-> args]

\* `inventory schema alter` run by a registered user with the drawn arguments
Declare ==
    /\ last.op = "start"
    /\ \E o \in {alter(db, get_config(db), Some(Token("alice", "pw")), last.args,
                        now + 1, 0)} :
          /\ db' = o.db
          /\ config' = o.config
          /\ now' = IF o.db # db THEN now + 1 ELSE now
          /\ last' = [op |-> "schema_alter", ok |-> o.ok,
                      stage |-> IF o.ok THEN "done" ELSE o.stage,
                      user |-> o.user, args |-> last.args]

DeclNext == Declare

SpecDecl == DeclInit /\ [][DeclNext]_vars

(***************************************************************************)
(* Column defaults: a registered user declares columns with and without a  *)
(* default and adds records that name some of them                         *)
(***************************************************************************)
\* a nullable column, a NOT NULL column, a NOT NULL column with a literal
\* default and a column whose default is the time of the write
DefaultArgsSet ==
    { AlterArgs("qty", "INT", FALSE, None, None, None, Some(TRUE), None),
      AlterArgs("qty", "INT", FALSE, None, None, None, None, None),
      AlterArgs("sku", "VARCHAR", FALSE, Some(3), None, None, None, Some("ab")),
      AlterArgs("seen", "TEXT", FALSE, None, None, None, Some(TRUE),
                Some("CURRENT_TIMESTAMP")) }

DefaultParamVecs ==
    { <<>>, <<Param("qty", "5")>>, <<Param("sku", "cd")>>, <<Param("seen", "x")>>,
      <<Param("qty", "5"), Param("sku", "cd")>> }

DefaultsInit ==
    /\ db = InitialDb
    /\ config = get_config(InitialDb)
    /\ now = 0
    /\ last = [op |-> "start", ok |-> TRUE, stage |-> "done", user |-> 0,
               params |-> <<>>]

\* the state after a command of this specification
Ran(op, o, params) ==
    /\ db' = o.db
    /\ config' = o.config
    /\ now' = IF o.db # db THEN now + 1 ELSE now
    /\ last' = [op |-> op, ok |-> o.ok, stage |-> IF o.ok THEN "done" ELSE o.stage,
                user |-> o.user, params |-> params]

\* `inventory schema alter` by the registered user
DeclareColumn ==
    /\ ClockRuns
    /\ \E cfg \in {get_config(db)}, args \in DefaultArgsSet :
          \E o \in {alter(db, cfg, Some(Token("alice", "pw")), args, now + 1, 0)} :
              Ran("schema_alter", o, <<>>)

\* `inventory add` by the registered user
AddRecord ==
    /\ ClockRuns
    /\ \E cfg \in {get_config(db)}, params \in DefaultParamVecs :
          \E o \in {add(db, cfg, Some(Token("alice", "pw")), params, now + 1, 0)} :
              Ran("inventory_add", o, params)

DefaultsNext ==
    \/ DeclareColumn
    \/ AddRecord

SpecDefaults == DefaultsInit /\ [][DefaultsNext]_vars

(***************************************************************************)
(* Unique columns: a registered user declares a column with and without    *)
(* --unique and adds, edits and removes records that hold it               *)
(***************************************************************************)
UniqueArgsSet ==
    { AlterArgs("sku", "VARCHAR", unique, Some(3), None, None, Some(TRUE), None) :
        unique \in BOOLEAN }

UniqueParamVecs == { <<Param("sku", "ab")>>, <<Param("sku", "cd")>> }

UniqueIdentifiers == {"1", "2"}

\* `inventory schema alter` by the registered user
UniqueAlter ==
    /\ ClockRuns
    /\ \E cfg \in {get_config(db)}, args \in UniqueArgsSet :
          \E o \in {alter(db, cfg, Some(Token("alice", "pw")), args, now + 1, 0)} :
              Run("schema_alter", o)

\* `inventory add` by the registered user
UniqueAdd ==
    /\ ClockRuns
    /\ \E cfg \in {get_config(db)}, params \in UniqueParamVecs :
          \E o \in {add(db, cfg, Some(Token("alice", "pw")), params, now + 1, 0)} :
              Run("inventory_add", o)

\* `inventory edit` by the registered user
UniqueEdit ==
    /\ ClockRuns
    /\ \E cfg \in {get_config(db)}, identifier \in UniqueIdentifiers,
          set \in UniqueParamVecs :
          \E o \in {edit(db, cfg, Some(Token("alice", "pw")), identifier, set,
                         now + 1, 0)} :
              Run("inventory_edit", o)

\* `inventory remove` by the registered user
UniqueRemove ==
    /\ ClockRuns
    /\ \E cfg \in {get_config(db)}, identifier \in UniqueIdentifiers :
          \E o \in {remove(db, cfg, Some(Token("alice", "pw")), identifier,
                           now + 1, 0)} :
              Run("inventory_remove", o)

UniqueNext ==
    \/ UniqueAlter
    \/ UniqueAdd
    \/ UniqueEdit
    \/ UniqueRemove

SpecUnique == Init /\ [][UniqueNext]_vars

(***************************************************************************)
(* Listing: a registered user declares a column, adds and removes records  *)
(* and lists them with every combination of --limit, --raw and --params    *)
(***************************************************************************)
MaxLimit == 2

ListArgsSet ==
    { ListArgs(limit, raw, params) :
        limit \in {None} \cup {Some(n) : n \in -1..MaxLimit},
        raw \in {None} \cup {Some(f) : f \in RawFilters},
        params \in {<<>>, <<"1">>} }

ListInit ==
    /\ db = InitialDb
    /\ config = get_config(InitialDb)
    /\ now = 0
    /\ last = [op |-> "start", ok |-> TRUE, stage |-> "done", user |-> 0,
               args |-> ListArgs(None, None, <<>>), entries |-> <<>>]

\* the state after a command of this specification
Returned(op, o, args) ==
    /\ db' = o.db
    /\ config' = o.config
    /\ now' = IF o.db # db THEN now + 1 ELSE now
    /\ last' = [op |-> op, ok |-> o.ok, stage |-> IF o.ok THEN "done" ELSE o.stage,
                user |-> o.user, args |-> args,
                entries |-> IF op = "inventory_list" THEN o.result ELSE <<>>]

\* `inventory schema alter` by the registered user
ListAlter ==
    /\ ClockRuns
    /\ \E cfg \in {get_config(db)},
          args \in {AlterArgs("qty", "INT", FALSE, None, None, None, Some(TRUE), None)} :
          \E o \in {alter(db, cfg, Some(Token("alice", "pw")), args, now + 1, 0)} :
              Returned("schema_alter", o, ListArgs(None, None, <<>>))

\* `inventory add` by the registered user
ListAdd ==
    /\ ClockRuns
    /\ \E cfg \in {get_config(db)}, params \in {<<Param("qty", "5")>>} :
          \E o \in {add(db, cfg, Some(Token("alice", "pw")), params, now + 1, 0)} :
              Returned("inventory_add", o, ListArgs(None, None, <<>>))

\* `inventory remove` by the registered user
ListRemove ==
    /\ ClockRuns
    /\ \E cfg \in {get_config(db)}, identifier \in {"1", "2"} :
          \E o \in {remove(db, cfg, Some(Token("alice", "pw")), identifier,
                           now + 1, 0)} :
              Returned("inventory_remove", o, ListArgs(None, None, <<>>))

\* `inventory list` by the registered user
ListRecords ==
    /\ ClockRuns
    /\ \E cfg \in {get_config(db)}, args \in ListArgsSet :
          \E o \in {list(db, cfg, Some(Token("alice", "pw")), args)} :
              Returned("inventory_list", o, args)

ListNext ==
    \/ ListAlter
    \/ ListAdd
    \/ ListRemove
    \/ ListRecords

SpecList == ListInit /\ [][ListNext]_vars

(***************************************************************************)
(* Required columns: a registered user declares NOT NULL columns with and  *)
(* without a default on an empty and on a filled table                     *)
(***************************************************************************)
RequiredArgsSet ==
    { AlterArgs("sku", "VARCHAR", FALSE, Some(3), None, None, Some(TRUE), None),
      AlterArgs("qty", "INT", FALSE, None, None, None, None, None),
      AlterArgs("qty", "INT", FALSE, None, None, None, Some(FALSE), Some("7")) }

RequiredInit ==
    /\ db = InitialDb
    /\ config = get_config(InitialDb)
    /\ now = 0
    /\ last = [op |-> "start", ok |-> TRUE, stage |-> "done", user |-> 0,
               args |-> <<>>, entries |-> <<>>]

\* `inventory schema alter` by the registered user
RequiredAlter ==
    /\ ClockRuns
    /\ \E cfg \in {get_config(db)}, args \in RequiredArgsSet :
          \E o \in {alter(db, cfg, Some(Token("alice", "pw")), args, now + 1, 0)} :
              Returned("schema_alter", o, args)

\* `inventory schema remove` by the registered user
RequiredRemove ==
    /\ ClockRuns
    /\ \E cfg \in {get_config(db)}, name \in {"sku", "qty"} :
          \E o \in {schema_remove_cmd(db, cfg, Some(Token("alice", "pw")), name,
                                      now + 1, 0)} :
              Returned("schema_remove", o, name)

\* `inventory add` by the registered user
RequiredAdd ==
    /\ ClockRuns
    /\ \E cfg \in {get_config(db)},
          params \in {<<Param("sku", "ab")>>, <<Param("qty", "5")>>} :
          \E o \in {add(db, cfg, Some(Token("alice", "pw")), params, now + 1, 0)} :
              Returned("inventory_add", o, params)

RequiredNext ==
    \/ RequiredAlter
    \/ RequiredRemove
    \/ RequiredAdd

SpecRequired == RequiredInit /\ [][RequiredNext]_vars

(***************************************************************************)
(* One context: the commands of the library are issued one after another   *)
(* on the same CommandContext, whose configuration is loaded once          *)
(***************************************************************************)
ContextArgsSet ==
    { AlterArgs("sku", "VARCHAR", unique, Some(3), None, None, Some(TRUE), None) :
        unique \in BOOLEAN }
    \cup { AlterArgs("qty", "INT", FALSE, None, None, None, Some(TRUE), None) }

\* InventorySchemaAlterArgs::alter on the context
ContextAlter ==
    /\ ClockRuns
    /\ \E args \in ContextArgsSet :
          \E o \in {alter(db, config, Some(Token("alice", "pw")), args, now + 1, 0)} :
              Run("schema_alter", o)

\* InventorySchemaRemoveArgs::remove on the context
ContextRemove ==
    /\ ClockRuns
    /\ \E name \in {"sku", "qty"} :
          \E o \in {schema_remove_cmd(db, config, Some(Token("alice", "pw")), name,
                                      now + 1, 0)} :
              Run("schema_remove", o)

\* InventoryAddArgs::add on the context
ContextAdd ==
    /\ ClockRuns
    /\ \E params \in {<<Param("sku", "ab")>>, <<Param("qty", "5")>>} :
          \E o \in {add(db, config, Some(Token("alice", "pw")), params, now + 1, 0)} :
              Run("inventory_add", o)

ContextNext ==
    \/ ContextAlter
    \/ ContextRemove
    \/ ContextAdd

SpecContext == Init /\ [][ContextNext]_vars

(***************************************************************************)
(* Two invocations of the program on one database: each loads the          *)
(* configuration when it starts and runs its command later, so that the    *)
(* other may commit in between                                             *)
(***************************************************************************)
Invocations == {1, 2}

RaceInit ==
    /\ db = InitialDb
    /\ config = get_config(InitialDb)
    /\ now = 0
    /\ last = [op |-> "start", ok |-> TRUE, stage |-> "done", user |-> 0,
               loaded |-> [p \in Invocations |-> None]]

\* the state after invocation p has run its command and exited
Exited(p, op, o) ==
    /\ db' = o.db
    /\ config' = o.config
    /\ now' = IF o.db # db THEN now + 1 ELSE now
    /\ last' = [op |-> op, ok |-> o.ok, stage |-> IF o.ok THEN "done" ELSE o.stage,
                user |-> o.user, loaded |-> [last.loaded EXCEPT ![p] = None]]

\* main: invocation p starts and loads the configuration
Load ==
    /\ ClockRuns
    /\ \E p \in Invocations :
          /\ last.loaded[p] = None
          /\ last' = [last EXCEPT !.loaded[p] = Some(get_config(db))]
    /\ UNCHANGED <<db, config, now>>

\* invocation p runs `inventory schema alter` under the configuration it loaded
RaceAlter ==
    /\ ClockRuns
    /\ \E p \in Invocations :
          /\ last.loaded[p] # None
          /\ \E args \in {AlterArgs("sku", "VARCHAR", FALSE, Some(3), None, None,
                                     Some(TRUE), None),
                           AlterArgs("qty", "INT", FALSE, None, None, None,
                                     Some(TRUE), None)} :
                \E o \in {alter(db, last.loaded[p][1], Some(Token("alice", "pw")),
                                 args, now + 1, 0)} :
                    Exited(p, "schema_alter", o)

\* invocation p runs `inventory schema remove` under the configuration it loaded
RaceSchemaRemove ==
    /\ ClockRuns
    /\ \E p \in Invocations :
          /\ last.loaded[p] # None
          /\ \E name \in {"sku", "qty"} :
                \E o \in {schema_remove_cmd(db, last.loaded[p][1],
                                             Some(Token("alice", "pw")), name,
                                             now + 1, 0)} :
                    Exited(p, "schema_remove", o)

\* invocation p runs `inventory add` under the configuration it loaded
RaceAdd ==
    /\ ClockRuns
    /\ \E p \in Invocations :
          /\ last.loaded[p] # None
          /\ \E params \in {<<Param("sku", "ab")>>, <<Param("qty", "5")>>} :
                \E o \in {add(db, last.loaded[p][1], Some(Token("alice", "pw")),
                               params, now + 1, 0)} :
                    Exited(p, "inventory_add", o)

RaceNext ==
    \/ Load
    \/ RaceAlter
    \/ RaceSchemaRemove
    \/ RaceAdd

SpecRace == RaceInit /\ [][RaceNext]_vars

(***************************************************************************)
(* Properties                                                              *)
(***************************************************************************)
SchemaOps == {"schema_alter", "schema_remove"}

RecordWriteOps == {"inventory_add", "inventory_edit", "inventory_remove"}

Ids(d) == {d.inventory_rows[i].id : i \in 1..Len(d.inventory_rows)}

RowOf(d, id) == d.inventory_rows[CHOOSE i \in 1..Len(d.inventory_rows) :
                                   d.inventory_rows[i].id = id]

IsPrefix(s, t) == Len(s) <= Len(t) /\ \A i \in 1..Len(s) : s[i] = t[i]

\* The steps below are a command run with the given arguments while the
\* storage engine fails no statement of it.

\* this step is `inventory schema alter` run with these arguments
AlterStep(auth, args) ==
    \E o \in {alter(db, get_config(db), auth, args, now + 1, 0)} :
        Run("schema_alter", o)

\* this step is `inventory schema remove` run with this name
RemoveStep(auth, name) ==
    \E o \in {schema_remove_cmd(db, get_config(db), auth, name, now + 1, 0)} :
        Run("schema_remove", o)

\* this step is `inventory add` run with these parameters
AddStep(auth, params) ==
    \E o \in {add(db, get_config(db), auth, params, now + 1, 0)} :
        Run("inventory_add", o)

\* this step is `inventory edit` run with these arguments
EditStep(auth, identifier, set) ==
    \E o \in {edit(db, get_config(db), auth, identifier, set, now + 1, 0)} :
        Run("inventory_edit", o)

\* the values `inventory list` (no limit) shows for column `name` of record id
Shown(d, cfg, id, name) ==
    LET listing == inventory_list(d, ListProps(-1, None, <<>>), cfg)
        of_record == { e \in Range(listing.entries) :
                         \E m \in 1..Len(e) :
                             e[m].key = "id" /\ e[m].value = Some(ToString(id)) }
    IN  UNION { { e[k].value : k \in { m \in 1..Len(e) : e[m].key = name } } :
                e \in of_record }

\* the value a record that existed before column decl was added shows for it
DeclaredDefault(decl, t) ==
    IF decl.default = "NULL" THEN None
    ELSE IF decl.default = "CURRENT_TIMESTAMP" THEN Some(Strftime(t))
    ELSE Some(decl.default)

\* the declaration of column `name` in schema cfg
DeclOf(cfg, name) == cfg[Position(cfg, name)[1]]

\* C1: a schema Alter or Remove whose transaction fails at any statement
\* (create, copy, drop, rename, trigger, ledger insert, registry update,
\* commit) leaves the record table's columns and rows, the persisted
\* registry value and the schema ledger exactly as they were before the call.
C1_FailedSchemaChangeRollsBack ==
    [][(last'.op \in SchemaOps /\ ~last'.ok /\ last'.stage = "storage")
          => /\ db'.inventory_cols = db.inventory_cols
             /\ db'.inventory_rows = db.inventory_rows
             /\ db'.config_value = db.config_value
             /\ db'.schema_tx = db.schema_tx]_vars

\* a schema change has just failed in storage on a table that holds records
\* under a non-empty schema
C1_Witness ==
    /\ last.op \in SchemaOps
    /\ ~last.ok
    /\ last.stage = "storage"
    /\ db.inventory_rows # <<>>
    /\ db.schema_tx # <<>>

\* C2: soft deletion is one-way: a record whose deleted_at is set is still
\* present with deleted_at set after any later command, be it a record edit
\* or remove or a schema Alter or Remove.
C2_SoftDeletionIsOneWay ==
    [][\A id \in Ids(db) :
          RowOf(db, id).deleted_at # None
             => id \in Ids(db') /\ RowOf(db', id).deleted_at # None]_vars

\* a schema Alter has just succeeded on a table that holds a deleted record
C2_Witness ==
    /\ last.op = "schema_alter"
    /\ last.ok
    /\ \E id \in Ids(db) : RowOf(db, id).deleted_at # None

\* C3: every successful schema Alter or Remove appends exactly one row to the
\* schema ledger, holding the dispatcher's user id, the action number (Alter
\* or Remove), the serialized schema before the call and the serialized
\* schema after it; a failed call appends none.
C3_SchemaLedgerRowPerChange ==
    [][last'.op \in SchemaOps
          => IF last'.ok
             THEN /\ last'.user # 0
                  /\ db'.schema_tx = Append(db.schema_tx,
                        [id         |-> Len(db.schema_tx) + 1,
                         dispatcher |-> last'.user,
                         action_no  |-> IF last'.op = "schema_alter" THEN "Alter"
                                        ELSE "Remove",
                         from_val   |-> to_string(get_config(db)),
                         to_val     |-> to_string(config')])
             ELSE db'.schema_tx = db.schema_tx]_vars

\* a schema Remove has just succeeded as the second or later schema change
C3_Witness ==
    /\ last.op = "schema_remove"
    /\ last.ok
    /\ Len(db.schema_tx) >= 2
    /\ db.schema_tx[Len(db.schema_tx)].action_no = "Remove"

\* C4: every successful record add, edit or remove appends exactly one row to
\* the record ledger and exactly one row to the event ledger; list appends
\* no row to any ledger; a failed record operation appends none.
C4_LedgerRowsPerRecordOperation ==
    [][/\ (last'.op \in RecordWriteOps /\ last'.ok)
            => /\ Len(db'.inventory_tx) = Len(db.inventory_tx) + 1
               /\ IsPrefix(db.inventory_tx, db'.inventory_tx)
               /\ Len(db'.event_tx) = Len(db.event_tx) + 1
               /\ IsPrefix(db.event_tx, db'.event_tx)
               /\ db'.schema_tx = db.schema_tx
       /\ (last'.op = "inventory_list" \/ (last'.op \in RecordWriteOps /\ ~last'.ok))
            => /\ db'.inventory_tx = db.inventory_tx
               /\ db'.event_tx = db.event_tx
               /\ db'.schema_tx = db.schema_tx]_vars

\* a record edit has just succeeded after an earlier record operation
C4_Witness ==
    /\ last.op = "inventory_edit"
    /\ last.ok
    /\ Len(db.inventory_tx) >= 2
    /\ db.inventory_tx[Len(db.inventory_tx)].action_no = "Edit"

\* some parameter sets an INT column declared with bounds to a value above
\* its max
AboveMax(set, cfg) ==
    \E i \in 1..Len(set) :
        /\ set[i].eq
        /\ is_some(Position(cfg, set[i].name))
        /\ DeclOf(cfg, set[i].name).column_type = "INT"
        /\ DeclOf(cfg, set[i].name).min < DeclOf(cfg, set[i].name).max
        /\ is_some(parse_i64(set[i].value))
        /\ parse_i64(set[i].value)[1] > DeclOf(cfg, set[i].name).max

\* C5: with an INT column declared with min and max (min=0, max=100), an
\* edit that sets the column to a value greater than max (qty=200) is
\* rejected before any row is written: the command fails and storage is
\* unchanged.
C5_EditAboveMaxRejected ==
    [][~ /\ last'.op = "inventory_edit"
         /\ (last'.ok \/ db' # db)
         /\ \E auth \in AuthTokens, identifier \in Identifiers, set \in ParamVecs :
               AboveMax(set, get_config(db)) /\ EditStep(auth, identifier, set)]_vars

\* some parameter gives a VARCHAR column a value longer than its max_length
TooLong(params, cfg) ==
    \E i \in 1..Len(params) :
        /\ params[i].eq
        /\ is_some(Position(cfg, params[i].name))
        /\ DeclOf(cfg, params[i].name).column_type = "VARCHAR"
        /\ Len(params[i].value) > DeclOf(cfg, params[i].name).max_length

\* C6: with a VARCHAR column declared with max_length n, an add whose value
\* for that column is longer than n is rejected before any row is written:
\* the command fails and storage is unchanged.
C6_AddTooLongRejected ==
    [][~ /\ last'.op = "inventory_add"
         /\ (last'.ok \/ db' # db)
         /\ \E auth \in AuthTokens, params \in ParamVecs :
               TooLong(params, get_config(db)) /\ AddStep(auth, params)]_vars

\* C7: after a successful Alter that adds a column name not in the schema
\* before, list shows that column, for every record that existed before the
\* Alter, as NULL when no default was declared and as the declared default
\* otherwise.
C7_NewColumnShowsDefault ==
    [][(last'.op = "schema_alter" /\ last'.ok)
          => \A auth \in AuthTokens, args \in AlterArgsSet :
                (/\ Position(get_config(db), args.name) = None
                 /\ AlterStep(auth, args))
                   => /\ inventory_list(db', ListProps(-1, None, <<>>), config').ok
                      /\ \A id \in Ids(db) :
                            Shown(db', config', id, args.name)
                               = {DeclaredDefault(DeclOf(config', args.name), now')}]_vars

\* an Alter has just added a column with a declared default to a table that
\* held a record, and the record shows that default
C7_Witness ==
    /\ last.op = "schema_alter"
    /\ last.ok
    /\ db.schema_tx # <<>>
    /\ \E id \in Ids(db), k \in 1..Len(config) :
          /\ RowOf(db, id).created_at < now
          /\ config[k].default # "NULL"
          /\ \A j \in 1..Len(db.schema_tx[Len(db.schema_tx)].from_val) :
                from_str(db.schema_tx[Len(db.schema_tx)].from_val)[j].name # config[k].name
          /\ Shown(db, config, id, config[k].name) = {Some(config[k].default)}

\* C8: a successful schema Alter or Remove loses no record: the table holds
\* the same record ids afterwards, and every column declared both before and
\* after the call holds, in every record, the value it held before.
C8_SchemaChangeKeepsRecords ==
    [][(last'.op \in SchemaOps /\ last'.ok)
          => /\ Ids(db') = Ids(db)
             /\ Len(db'.inventory_rows) = Len(db.inventory_rows)
             /\ \A id \in Ids(db) :
                   \A c \in Range(Names(get_config(db))) \cap Range(Names(config')) :
                       RowOf(db', id).vals[c] = RowOf(db, id).vals[c]]_vars

\* a schema change has just succeeded on a table with a record that holds a
\* value in a column declared before and after the change
C8_Witness ==
    /\ last.op \in SchemaOps
    /\ last.ok
    /\ Len(db.schema_tx) >= 2
    /\ \E id \in Ids(db), c \in Range(Names(config)) :
          /\ RowOf(db, id).created_at < now
          /\ RowOf(db, id).vals[c] # None
          /\ c \in Range(Names(from_str(db.schema_tx[Len(db.schema_tx)].from_val)))

\* the column `name` was removed by an earlier schema Remove
RemovedBefore(d, name) ==
    \E i \in 1..Len(d.schema_tx) :
        /\ d.schema_tx[i].action_no = "Remove"
        /\ name \in Range(Names(from_str(d.schema_tx[i].from_val)))
        /\ name \notin Range(Names(from_str(d.schema_tx[i].to_val)))

\* C9: after a successful Remove(name) the column is absent from the list
\* projection and its data is gone from the table; when a column of the
\* same name is added again, every existing record shows NULL or the new
\* default for it, never the value held before the Remove.
C9_RemovedColumnDataDiscarded ==
    [][/\ (last'.op = "schema_remove" /\ last'.ok)
            => \A auth \in AuthTokens, name \in ColumnNames :
                  RemoveStep(auth, name)
                     => /\ name \notin TableNames(db'.inventory_cols)
                        /\ name \notin Range(SchemaCollection_sql_names(config'))
                        /\ inventory_list(db', ListProps(-1, None, <<>>), config').ok
                        /\ \A id \in Ids(db') : Shown(db', config', id, name) = {}
       /\ (last'.op = "schema_alter" /\ last'.ok)
            => \A auth \in AuthTokens, args \in AlterArgsSet :
                  (/\ RemovedBefore(db, args.name)
                   /\ Position(get_config(db), args.name) = None
                   /\ AlterStep(auth, args))
                     => \A id \in Ids(db) :
                           RowOf(db', id).vals[args.name]
                              = DeclaredDefault(DeclOf(config', args.name), now')]_vars

\* a column that held the value 5 in a record was removed and has just been
\* added again: the record shows NULL for it
C9_Witness ==
    /\ last.op = "schema_alter"
    /\ last.ok
    /\ RemovedBefore(db, "qty")
    /\ is_some(Position(config, "qty"))
    /\ \E i \in 1..Len(db.inventory_tx) :
          /\ \E k \in 1..Len(db.inventory_tx[i].to_val[1]) :
                /\ db.inventory_tx[i].to_val[1][k].key = "qty"
                /\ db.inventory_tx[i].to_val[1][k].json = "5"
          /\ db.inventory_tx[i].inventory_id \in Ids(db)
          /\ Shown(db, config, db.inventory_tx[i].inventory_id, "qty") = {None}

\* C10: Remove(name) for a name that matches no declaration returns an error
\* and changes nothing: no ledger row, the table and the persisted registry
\* unchanged, and the caller's in-memory collection unchanged.
C10_RemoveUnknownNameChangesNothing ==
    [][(last'.op = "schema_remove" /\ last'.user # 0)
          => \A auth \in AuthTokens, name \in ColumnNames :
                (/\ authenticate(db, auth).ok
                 /\ Position(get_config(db), name) = None
                 /\ RemoveStep(auth, name))
                   => /\ ~last'.ok
                      /\ db' = db
                      /\ config' = get_config(db)]_vars

\* a Remove of an undeclared name has just been refused while the schema
\* declares columns and the table holds records
C10_Witness ==
    /\ last.op = "schema_remove"
    /\ ~last.ok
    /\ last.stage = "not_found"
    /\ config # <<>>
    /\ db.inventory_rows # <<>>

\* C11: a schema Alter or Remove whose storage transaction fails leaves the
\* caller's in-memory schema collection equal to its value before the call
\* (the collection loaded from the persisted registry).
C11_FailedSchemaChangeKeepsConfig ==
    [][(last'.op \in SchemaOps /\ ~last'.ok /\ last'.stage = "storage")
          => config' = get_config(db)]_vars

\* the largest id of a ledger
MaxId(ledger) ==
    CHOOSE m \in {ledger[i].id : i \in 1..Len(ledger)} :
        \A i \in 1..Len(ledger) : ledger[i].id <= m

\* C12: every record-ledger row appended by add, edit or remove carries as
\* schema_id the largest schema-ledger id that exists at that moment.
C12_RecordLedgerCarriesLatestSchemaId ==
    [][(last'.op \in RecordWriteOps /\ Len(db'.inventory_tx) > Len(db.inventory_tx))
          => \A i \in (Len(db.inventory_tx) + 1)..Len(db'.inventory_tx) :
                /\ db.schema_tx # <<>>
                /\ db'.inventory_tx[i].schema_id = MaxId(db.schema_tx)]_vars

\* a record operation has just been logged under the second schema version
\* while an earlier record-ledger row carries the first
C12_Witness ==
    /\ last.op \in RecordWriteOps
    /\ last.ok
    /\ Len(db.inventory_tx) >= 2
    /\ db.inventory_tx[Len(db.inventory_tx)].schema_id = 2
    /\ db.inventory_tx[1].schema_id = 1

\* the token is absent, empty, has no ':' or names no user with that password
Rejected(d, auth) ==
    \/ auth = None
    \/ ~auth[1].colon
    \/ ~\E i \in 1..Len(d.users) :
           /\ d.users[i].username = auth[1].username
           /\ d.users[i].password = auth[1].password

\* the command failed on authentication without touching anything
AuthFailure(o, d, cfg) ==
    /\ ~o.ok
    /\ o.stage = "auth"
    /\ o.user = 0
    /\ o.db = d
    /\ o.config = cfg
    /\ o.result = <<>>

\* every command run with a rejected token fails on authentication
RejectedTokensFail ==
    \A auth \in AuthTokens :
        Rejected(db, auth) =>
          \E cfg \in {get_config(db)} :
            /\ \A args \in AlterArgsSet :
                  AuthFailure(alter(db, cfg, auth, args, now + 1, 0), db, cfg)
            /\ \A name \in ColumnNames :
                  AuthFailure(schema_remove_cmd(db, cfg, auth, name, now + 1, 0), db, cfg)
            /\ AuthFailure(schema_list(db, cfg, auth), db, cfg)
            /\ \A params \in ParamVecs :
                  /\ AuthFailure(add(db, cfg, auth, params, now + 1, 0), db, cfg)
                  /\ \A identifier \in Identifiers :
                        AuthFailure(edit(db, cfg, auth, identifier, params, now + 1, 0),
                                    db, cfg)
            /\ \A identifier \in Identifiers :
                  AuthFailure(remove(db, cfg, auth, identifier, now + 1, 0), db, cfg)
            /\ \A limit \in {None, Some(1)} :
                  AuthFailure(list(db, cfg, auth, ListArgs(limit, None, <<>>)),
                              db, cfg)

\* the rows of ledger `after` that are not in ledger `before`
Appended(before, after) ==
    {after[i] : i \in (Len(before) + 1)..Len(after)}

\* C13: schema alter, schema remove, schema list, inventory add, list, edit
\* and remove each fail with an authentication error and leave the schema,
\* the records and the ledgers alone when the token is absent, empty, without
\* ':' or rejected by user_auth; a command that succeeds writes the id
\* user_auth returned as the dispatcher of every audit row it appends.
C13_AuthenticationGuardsEveryCommand ==
    /\ []RejectedTokensFail
    /\ [][/\ (last'.stage = "auth")
               => ~last'.ok /\ db' = db /\ config' = get_config(db)
          /\ (last'.ok /\ last'.op \in SchemaOps \cup RecordWriteOps)
               => /\ \E auth \in AuthTokens, i \in 1..Len(db.users) :
                        /\ ~Rejected(db, auth)
                        /\ db.users[i].username = auth[1].username
                        /\ db.users[i].id = last'.user
                  /\ \A row \in Appended(db.schema_tx, db'.schema_tx)
                                \cup Appended(db.inventory_tx, db'.inventory_tx)
                                \cup Appended(db.event_tx, db'.event_tx) :
                        row.dispatcher = last'.user]_vars

\* a record command has just been refused on authentication while the table
\* holds records, and the ledgers hold rows written for user 1
C13_Witness ==
    /\ last.op = "inventory_remove"
    /\ ~last.ok
    /\ last.stage = "auth"
    /\ db.inventory_rows # <<>>
    /\ \E i \in 1..Len(db.inventory_tx) : db.inventory_tx[i].dispatcher = 1
    /\ \E i \in 1..Len(db.schema_tx) : db.schema_tx[i].dispatcher = 1

\* the ids of a ledger strictly increase in append order
IdsIncrease(ledger) ==
    \A i \in 1..Len(ledger), j \in 1..Len(ledger) :
        i < j => ledger[i].id < ledger[j].id

\* C14: the schema ledger, the record ledger and the event ledger are
\* append-only: after every operation each ledger has its content before the
\* operation as a prefix (no row modified or deleted), and its ids strictly
\* increase in append order.
C14_LedgersAppendOnly ==
    [][/\ IsPrefix(db.schema_tx, db'.schema_tx)
       /\ IsPrefix(db.inventory_tx, db'.inventory_tx)
       /\ IsPrefix(db.event_tx, db'.event_tx)
       /\ IdsIncrease(db'.schema_tx)
       /\ IdsIncrease(db'.inventory_tx)
       /\ IdsIncrease(db'.event_tx)]_vars

\* an operation has just appended to ledgers that already held rows
C14_Witness ==
    /\ last.ok
    /\ last.op \in RecordWriteOps
    /\ Len(db.schema_tx) >= 2
    /\ Len(db.inventory_tx) >= 2
    /\ Len(db.event_tx) >= 2

\* the record-ledger row the operation has just appended
NewestTx(d) == d.inventory_tx[Len(d.inventory_tx)]

\* C15: inventory remove sets deleted_at to the current time only when the
\* record's deleted_at is absent; removing a record that is already
\* soft-deleted leaves its deleted_at exactly as the first remove set it; no
\* remove physically deletes a row.
C15_RemoveStampsOnce ==
    [][(last'.op = "inventory_remove")
          => /\ Len(db'.inventory_rows) = Len(db.inventory_rows)
             /\ \A i \in 1..Len(db.inventory_rows) :
                   /\ db'.inventory_rows[i].id = db.inventory_rows[i].id
                   /\ db'.inventory_rows[i].vals = db.inventory_rows[i].vals
                   /\ db.inventory_rows[i].deleted_at # None
                        => db'.inventory_rows[i].deleted_at
                              = db.inventory_rows[i].deleted_at
                   /\ db'.inventory_rows[i].deleted_at # db.inventory_rows[i].deleted_at
                        => /\ last'.ok
                           /\ db'.inventory_rows[i].deleted_at = Some(now')
                           /\ NewestTx(db').inventory_id = db.inventory_rows[i].id
             /\ last'.ok
                  => RowOf(db', NewestTx(db').inventory_id).deleted_at
                        = IF RowOf(db, NewestTx(db').inventory_id).deleted_at = None
                          THEN Some(now')
                          ELSE RowOf(db, NewestTx(db').inventory_id).deleted_at]_vars

\* a record that was soft-deleted earlier has just been removed again and
\* still carries the earlier timestamp
C15_Witness ==
    /\ last.op = "inventory_remove"
    /\ last.ok
    /\ \E i \in 1..(Len(db.inventory_tx) - 1) :
          /\ db.inventory_tx[i].action_no = "Delete"
          /\ db.inventory_tx[i].inventory_id = NewestTx(db).inventory_id
    /\ is_some(RowOf(db, NewestTx(db).inventory_id).deleted_at)
    /\ RowOf(db, NewestTx(db).inventory_id).deleted_at[1] < now

\* the JSON values a snapshot holds under `key`
Member(snapshot, key) ==
    {snapshot[k].json : k \in {m \in 1..Len(snapshot) : snapshot[m].key = key}}

\* C16: the record-ledger row written by inventory remove of an active
\* record has a before-snapshot whose deleted_at is null and an
\* after-snapshot of the same row (same fields in the same order, same id,
\* same column values) whose deleted_at is populated.
C16_RemoveSnapshots ==
    [][(last'.op = "inventory_remove" /\ last'.ok)
          => \E tx \in {NewestTx(db')} :
                /\ tx.action_no = "Delete"
                /\ is_some(tx.from_val) /\ is_some(tx.to_val)
                /\ RowOf(db, tx.inventory_id).deleted_at = None
                     => /\ Member(tx.from_val[1], "deleted_at") = {"null"}
                        /\ Member(tx.to_val[1], "deleted_at")
                             = {"\"" \o Strftime(now') \o "\""}
                        /\ Member(tx.from_val[1], "id") = {ToString(tx.inventory_id)}
                        /\ Len(tx.to_val[1]) = Len(tx.from_val[1])
                        /\ \A k \in 1..Len(tx.from_val[1]) :
                              /\ tx.to_val[1][k].key = tx.from_val[1][k].key
                              /\ tx.from_val[1][k].key \notin {"deleted_at", "updated_at"}
                                   => tx.to_val[1][k].json = tx.from_val[1][k].json]_vars

\* an active record holding a value has just been removed
C16_Witness ==
    /\ last.op = "inventory_remove"
    /\ last.ok
    /\ Member(NewestTx(db).from_val[1], "deleted_at") = {"null"}
    /\ Member(NewestTx(db).from_val[1], "qty") = {"5"}
    /\ RowOf(db, NewestTx(db).inventory_id).deleted_at = Some(now)

\* the identifier is the id of no row of the record table
MatchesNoRow(d, identifier) ==
    \A i \in 1..Len(d.inventory_rows) : ToString(d.inventory_rows[i].id) # identifier

\* the command returned an error and left the database as it was
Refused(o, d) == ~o.ok /\ o.db = d

\* edit and remove of an identifier that matches no row are refused
UnknownIdentifierRefused ==
    \A identifier \in Identifiers :
        MatchesNoRow(db, identifier) =>
          \E cfg \in {get_config(db)} :
            \A auth \in AuthTokens :
                /\ Refused(remove(db, cfg, auth, identifier, now + 1, 0), db)
                /\ \A set \in ParamVecs :
                      Refused(edit(db, cfg, auth, identifier, set, now + 1, 0), db)

\* C17: inventory edit and inventory remove with an identifier that matches
\* no row of the record table return an error and change nothing: no record
\* is modified and no record-ledger or event-ledger row is appended.
C17_UnknownIdentifierChangesNothing ==
    /\ []UnknownIdentifierRefused
    /\ [][(last'.op \in {"inventory_edit", "inventory_remove"}
              /\ \A identifier \in Identifiers : MatchesNoRow(db, identifier))
            => /\ ~last'.ok
               /\ db'.inventory_rows = db.inventory_rows
               /\ db'.inventory_tx = db.inventory_tx
               /\ db'.event_tx = db.event_tx]_vars

\* an authenticated remove has just been refused by storage while the schema
\* declares a column and some identifier matches no row
C17_Witness ==
    /\ last.op = "inventory_remove"
    /\ ~last.ok
    /\ last.stage = "storage"
    /\ config # <<>>
    /\ db.inventory_rows = <<>>
    /\ db.schema_tx # <<>>

\* some parameter lacks the '=' or names a column the schema does not declare
HasBadParam(params, cfg) ==
    \E i \in 1..Len(params) :
        \/ ~params[i].eq
        \/ params[i].name \notin Range(Names(cfg))

\* the command failed on authentication or while converting its parameters
RefusedBeforeStorage(o, d, cfg) ==
    /\ ~o.ok
    /\ o.stage \in {"auth", "parse"}
    /\ o.user # 0 => o.stage = "parse"
    /\ o.db = d
    /\ o.config = cfg

\* add and edit with a parameter vector that holds a bad parameter fail
\* before the storage layer is called
BadParamsRefused ==
    \E cfg \in {get_config(db)} :
        \A params \in ParamVecs :
            HasBadParam(params, cfg) =>
              \A auth \in AuthTokens :
                  /\ RefusedBeforeStorage(add(db, cfg, auth, params, now + 1, 0), db, cfg)
                  /\ \A identifier \in Identifiers :
                        RefusedBeforeStorage(
                            edit(db, cfg, auth, identifier, params, now + 1, 0), db, cfg)

\* C18: inventory add and inventory edit are all-or-nothing over their
\* name=value parameters: when any parameter lacks an '=' or names a column
\* that is not in the current schema the call fails before the storage layer
\* is invoked, even when other parameters are valid; no record is inserted or
\* changed and no ledger row is appended.
C18_ParametersAllOrNothing ==
    /\ []BadParamsRefused
    /\ [][/\ (last'.stage = "parse")
               => /\ last'.op \in {"inventory_add", "inventory_edit"}
                  /\ ~last'.ok
                  /\ db' = db
          /\ (last'.op \in {"inventory_add", "inventory_edit"} /\ get_config(db) = <<>>)
               => /\ ~last'.ok
                  /\ db' = db]_vars

\* an add has just been refused while converting its parameters, with a
\* column declared and records in the table
C18_Witness ==
    /\ last.op = "inventory_add"
    /\ ~last.ok
    /\ last.stage = "parse"
    /\ config # <<>>
    /\ db.inventory_rows # <<>>
    /\ \E params \in ParamVecs :
          /\ HasBadParam(params, config)
          /\ \E i \in 1..Len(params) :
                params[i].eq /\ params[i].name \in Range(Names(config))

\* C19: the declaration validator fails for every input whose min_length
\* exceeds its max_length and for every input whose min exceeds its max (an
\* absent option counting as 0); every declaration it returns satisfies
\* min_length <= max_length and min <= max.
C19_ValidatorOrdersBounds ==
    [][(last'.op = "schema_alter")
          => \E a \in {last'.args}, r \in {SchemaDeclaration_new(last'.args)} :
                /\ (\/ unwrap_or(a.min_length, 0) > unwrap_or(a.max_length, 0)
                    \/ unwrap_or(a.min, 0) > unwrap_or(a.max, 0))
                     => /\ ~r.ok
                        /\ ~last'.ok
                        /\ last'.stage = "validate"
                        /\ db' = db
                /\ r.ok
                     => /\ r.decl.min_length <= r.decl.max_length
                        /\ r.decl.min <= r.decl.max
                /\ last'.ok
                     => \A i \in 1..Len(config') :
                           /\ config'[i].min_length <= config'[i].max_length
                           /\ config'[i].min <= config'[i].max]_vars

\* the validator has just refused --min 1 without --max although the two
\* lengths are in order
C19_Witness ==
    /\ last.op = "schema_alter"
    /\ ~last.ok
    /\ last.stage = "validate"
    /\ last.args.min = Some(1)
    /\ last.args.max = None
    /\ last.args.column_type = "INT"
    /\ last.args.min_length = Some(1)
    /\ last.args.max_length = Some(2)

\* C20: the declaration validator fails for every VARCHAR declaration whose
\* max_length is 0 or absent, whatever the other parameters are, and such a
\* declaration never reaches schema_alter: nothing is written and the
\* loaded collection is not changed.
C20_VarcharNeedsMaxLength ==
    [][(/\ last'.op = "schema_alter"
        /\ last'.args.column_type = "VARCHAR"
        /\ last'.args.max_length \in {None, Some(0)})
          => /\ ~SchemaDeclaration_new(last'.args).ok
             /\ ~last'.ok
             /\ last'.stage = "validate"
             /\ db' = db
             /\ config' = config]_vars

\* the validator has just refused a VARCHAR column without --max-length whose
\* other options are all in order
C20_Witness ==
    /\ last.op = "schema_alter"
    /\ ~last.ok
    /\ last.stage = "validate"
    /\ last.args.column_type = "VARCHAR"
    /\ last.args.max_length = None
    /\ last.args.min_length = None
    /\ last.args.min = Some(0)
    /\ last.args.max = Some(2)
    /\ last.args.default = Some("ab")
    /\ db.schema_tx = <<>>

StringTypes == {"TEXT", "VARCHAR"}

\* the literal default is longer than a configured max_length or shorter
\* than a configured min_length
DefaultOutOfLength(a) ==
    /\ is_some(a.default)
    /\ a.default[1] # "NULL"
    /\ \/ /\ unwrap_or(a.max_length, 0) > 0
           /\ Len(a.default[1]) > unwrap_or(a.max_length, 0)
       \/ /\ unwrap_or(a.min_length, 0) > 0
           /\ Len(a.default[1]) < unwrap_or(a.min_length, 0)

\* the options pass the checks that come before the default-length check
OptionsInOrder(a) ==
    /\ unwrap_or(a.min_length, 0) <= unwrap_or(a.max_length, 0)
    /\ unwrap_or(a.min, 0) <= unwrap_or(a.max, 0)
    /\ a.column_type = "VARCHAR" => unwrap_or(a.max_length, 0) > 0

\* C21: the validator's default-length check applies only to string-typed
\* columns: an INT, REAL or BOOL declaration with a non-NULL default is
\* accepted whatever the default's length relative to min_length and
\* max_length, while a TEXT or VARCHAR declaration whose literal default is
\* shorter than a configured min_length or longer than a configured
\* max_length is rejected.
C21_DefaultLengthOnlyForStrings ==
    [][(last'.op = "schema_alter")
          => \E a \in {last'.args} :
                /\ (/\ a.column_type \notin StringTypes
                    /\ is_some(a.default)
                    /\ OptionsInOrder(a))
                     => last'.stage # "validate"
                /\ (a.column_type \in StringTypes /\ DefaultOutOfLength(a))
                     => ~last'.ok /\ last'.stage = "validate"]_vars

\* the characters the help text of --name allows
NameChars ==
    {"a", "b", "c", "d", "e", "f", "g", "h", "i", "j", "k", "l", "m", "n", "o",
     "p", "q", "r", "s", "t", "u", "v", "w", "x", "y", "z", "-", "_"}

NameAllowed(name) ==
    /\ Chars(name) # <<>>
    /\ \A i \in 1..Len(Chars(name)) : Chars(name)[i] \in NameChars

\* C22: every declaration accepted by validation and stored in the schema
\* registry has a name made only of lowercase letters a-z, dash and
\* underscore; an Alter whose name holds any other character is rejected.
C22_NamesAreLowercase ==
    [][(last'.op = "schema_alter")
          => /\ \A i \in 1..Len(get_config(db')) :
                   NameAllowed(get_config(db')[i].name)
             /\ ~NameAllowed(last'.args.name) => ~last'.ok]_vars

\* no two declarations of the collection have the same name
NameUnique(schema) ==
    \A i \in 1..Len(schema), j \in 1..Len(schema) :
        schema[i].name = schema[j].name => i = j

\* the collection without its declarations named `name`
Without(schema, name) == SelectSeq(schema, LAMBDA e : e.name # name)

\* the in-memory and the persisted collection are name-unique
CollectionsNameUnique == NameUnique(config) /\ NameUnique(get_config(db))

\* C23: a successful schema Alter(decl) removes the declaration that has
\* decl's name, if there is one, and makes decl the last element of the
\* collection; all other declarations keep their relative order; after any
\* sequence of Alter and Remove calls no two declarations of the collection
\* (loaded, in memory or persisted) have the same name.
C23_AlterMovesToEnd ==
    /\ []CollectionsNameUnique
    /\ [][(last'.op = "schema_alter" /\ last'.ok)
            => \E old \in {get_config(db)}, new \in {get_config(db')} :
                  /\ config' = new
                  /\ Len(new) >= 1
                  /\ SubSeq(new, 1, Len(new) - 1) = Without(old, new[Len(new)].name)
                  /\ \A auth \in AuthTokens, args \in AlterArgsSet :
                        AlterStep(auth, args)
                           => new[Len(new)] = declaration_from(args)]_vars

\* a column declared first has just been declared again and now comes last
C23_Witness ==
    /\ last.op = "schema_alter"
    /\ last.ok
    /\ Names(config) = <<"sku", "qty">>
    /\ Names(from_str(db.schema_tx[Len(db.schema_tx)].from_val)) = <<"qty", "sku">>

\* the column carries the nullability, uniqueness and default of the
\* declaration
ColumnMirrors(col, decl) ==
    /\ col.name = decl.name
    /\ col.not_null = ~decl.nullable
    /\ col.unique = decl.unique
    /\ col.dflt = None <=> decl.default = "NULL"
    /\ col.dflt # None
         => /\ col.dflt[1].now <=> decl.default = "CURRENT_TIMESTAMP"
            /\ ~col.dflt[1].now => col.dflt[1].text = decl.default

\* C24: in every committed state, and so after every successful schema Alter
\* or Remove, the declared columns of the record table (those after id,
\* created_at, updated_at, deleted_at) are one per declaration of the
\* persisted schema registry, in registry order, each with the declared
\* nullability, uniqueness and default.
C24_TableMirrorsRegistry ==
    \E cfg \in {get_config(db)} :
        /\ Len(db.inventory_cols) = Len(cfg)
        /\ \A i \in 1..Len(cfg) : ColumnMirrors(db.inventory_cols[i], cfg[i])
        /\ \A i \in 1..Len(db.inventory_rows) :
              DOMAIN db.inventory_rows[i].vals = Range(Names(cfg))

\* a schema change has just rebuilt a table that holds a record, with a NOT
\* NULL column first and a unique column with a default second
C24_Witness ==
    /\ last.op \in SchemaOps
    /\ last.ok
    /\ db.inventory_rows # <<>>
    /\ Names(get_config(db)) = <<"qty", "sku">>
    /\ db.inventory_cols[1].not_null
    /\ db.inventory_cols[2].unique
    /\ db.inventory_cols[2].dflt # None

\* the JSON text of a stored value: null, or the text, quoted for strings
JsonText(value, quoted) ==
    IF value = None THEN "null"
    ELSE IF quoted THEN "\"" \o value[1] \o "\""
    ELSE value[1]

\* the JSON a snapshot of `row` holds under a system field or a column that
\* schema cfg declares (INT, REAL, TEXT or VARCHAR)
JsonOf(row, cfg, key) ==
    CASE key = "id" -> ToString(row.id)
      [] key = "created_at" -> JsonText(Some(Strftime(row.created_at)), TRUE)
      [] key = "updated_at" -> JsonText(Some(Strftime(row.updated_at)), TRUE)
      [] key = "deleted_at" ->
            IF row.deleted_at = None THEN "null"
            ELSE JsonText(Some(Strftime(row.deleted_at[1])), TRUE)
      [] OTHER -> JsonText(row.vals[key], DeclOf(cfg, key).column_type \in StringTypes)

\* the keys of a snapshot, as a set
Keys(snapshot) == {snapshot[k].key : k \in 1..Len(snapshot)}

\* the snapshot holds exactly the system fields and the columns of cfg, each
\* with the value `row` has for it
SnapshotOf(snapshot, row, cfg) ==
    /\ Keys(snapshot) = Range(SystemColumns) \cup Range(Names(cfg))
    /\ \A key \in Keys(snapshot) : Member(snapshot, key) = {JsonOf(row, cfg, key)}

\* C25: a successful inventory add appends a record-ledger row with action
\* Add, before-snapshot NULL, inventory_id equal to the id of the row just
\* inserted, and after-snapshot equal to that row read back with the fields
\* id, created_at, updated_at, deleted_at and every current schema column.
C25_AddLedgerRow ==
    [][(last'.op = "inventory_add" /\ last'.ok)
          => \E tx \in {NewestTx(db')},
                row \in {db'.inventory_rows[Len(db'.inventory_rows)]} :
                /\ Len(db'.inventory_rows) = Len(db.inventory_rows) + 1
                /\ row.id \notin Ids(db)
                /\ row.created_at = now'
                /\ row.deleted_at = None
                /\ tx.action_no = "Add"
                /\ tx.from_val = None
                /\ tx.inventory_id = row.id
                /\ is_some(tx.to_val)
                /\ SnapshotOf(tx.to_val[1], row, get_config(db))]_vars

\* a second record has just been added under a schema of two columns
C25_Witness ==
    /\ last.op = "inventory_add"
    /\ last.ok
    /\ NewestTx(db).action_no = "Add"
    /\ NewestTx(db).inventory_id = 2
    /\ Len(db.inventory_rows) = 2
    /\ Len(config) = 2
    /\ Member(NewestTx(db).to_val[1], "sku") = {"\"ab\""}

\* the event action that belongs to a record action
EventOf(action_no) ==
    CASE action_no = "Add" -> "InventoryAdd"
      [] action_no = "Edit" -> "InventoryEdit"
      [] action_no = "Delete" -> "InventoryRemove"
      [] OTHER -> "none"

\* the record action a command writes
ActionOf(op) ==
    CASE op = "inventory_add" -> "Add"
      [] op = "inventory_edit" -> "Edit"
      [] op = "inventory_remove" -> "Delete"
      [] OTHER -> "none"

\* C26: for every event-ledger row appended by inventory add, edit or
\* remove, target is the id of the record-ledger row appended in the same
\* transaction, dispatcher is the same user id, and the event action
\* corresponds to the record action (InventoryAdd/Add, InventoryEdit/Edit,
\* InventoryRemove/Delete).
C26_EventRowPointsAtLedgerRow ==
    [][(last'.op \in RecordWriteOps)
          => \A e \in Appended(db.event_tx, db'.event_tx) :
                \E tx \in Appended(db.inventory_tx, db'.inventory_tx) :
                    /\ e.target = tx.id
                    /\ e.dispatcher = tx.dispatcher
                    /\ e.dispatcher = last'.user
                    /\ tx.action_no = ActionOf(last'.op)
                    /\ e.action_no = EventOf(tx.action_no)]_vars

\* a remove has just been logged for the first record as the third
\* operation on records, so that ledger ids and record ids differ
C26_Witness ==
    /\ last.op = "inventory_remove"
    /\ last.ok
    /\ Len(db.event_tx) = 3
    /\ db.event_tx[3].target = 3
    /\ db.event_tx[3].action_no = "InventoryRemove"
    /\ NewestTx(db).inventory_id = 1

\* serializing the collection and parsing it back yields it again, with all
\* twelve fields of every declaration
RoundTrips(schema) ==
    /\ from_str(to_string(schema)) = schema
    /\ Names(from_str(to_string(schema))) = Names(schema)
    /\ \A i \in 1..Len(schema) :
          /\ DOMAIN schema[i] = Range(FieldNames)
          /\ Len(to_string(schema)[i]) = 12

\* the in-memory collection round-trips and the persisted value is the
\* serialization of what get_config loads from it
CollectionsRoundTrip ==
    RoundTrips(config) /\ to_string(get_config(db)) = db.config_value

Omitted(params, cfg) ==
    Range(Names(cfg)) \ {params[i].name : i \in 1..Len(params)}

\* C28: when inventory add omits a declared column, the add fails without
\* inserting a record or appending ledger rows if the column has no default
\* and is not nullable; otherwise the record it inserts holds for that
\* column the declared literal default, the write-time timestamp for
\* CURRENT_TIMESTAMP, or NULL if the column has no default.
C28_OmittedColumnsTakeDefaults ==
    [][(last'.op = "inventory_add")
          => \E cfg \in {get_config(db)}, params \in {last'.params} :
                /\ (/\ ~HasBadParam(params, cfg)
                    /\ \E c \in Omitted(params, cfg) :
                          /\ DeclOf(cfg, c).default = "NULL"
                          /\ ~DeclOf(cfg, c).nullable)
                     => ~last'.ok /\ db' = db
                /\ last'.ok
                     => \E row \in {db'.inventory_rows[Len(db'.inventory_rows)]} :
                           /\ row.id \notin Ids(db)
                           /\ \A c \in Omitted(params, cfg) :
                                 row.vals[c] = DeclaredDefault(DeclOf(cfg, c), now')
                           /\ \A i \in 1..Len(params) :
                                 row.vals[params[i].name] = Some(params[i].value)]_vars

\* a record has just been added that names only qty: it holds the literal
\* default of sku and the time of the write in seen
C28_Witness ==
    /\ last.op = "inventory_add"
    /\ last.ok
    /\ last.params = <<Param("qty", "5")>>
    /\ Range(Names(config)) = {"qty", "sku", "seen"}
    /\ db.inventory_rows[Len(db.inventory_rows)].vals["sku"] = Some("ab")
    /\ db.inventory_rows[Len(db.inventory_rows)].vals["seen"] = Some(Strftime(now))

\* the records other than `id` that hold value in column name
Holders(d, name, value, id) ==
    { i \in 1..Len(d.inventory_rows) :
        /\ d.inventory_rows[i].id # id
        /\ name \in DOMAIN d.inventory_rows[i].vals
        /\ d.inventory_rows[i].vals[name] = Some(value) }

\* the schema declares column name unique
DeclaredUnique(cfg, name) ==
    \E k \in 1..Len(cfg) : cfg[k].name = name /\ cfg[k].unique

\* no two records, soft-deleted or not, hold the same non-NULL value in a
\* column the schema declares unique
UniqueColumnsDistinct ==
    \E cfg \in {get_config(db)} :
        \A k \in 1..Len(cfg) : cfg[k].unique =>
            \A i, j \in 1..Len(db.inventory_rows) :
                (/\ i # j
                 /\ db.inventory_rows[i].vals[cfg[k].name] # None)
                  => db.inventory_rows[i].vals[cfg[k].name]
                        # db.inventory_rows[j].vals[cfg[k].name]

\* an add or an edit that would give a second record a value of a unique
\* column, and an alter that declares unique a column in which two records
\* hold the same value, return an error and leave the database as it was
DuplicatesRefused ==
    \E cfg \in {get_config(db)}, auth \in {Some(Token("alice", "pw"))} :
        /\ \A params \in UniqueParamVecs :
              (/\ DeclaredUnique(cfg, params[1].name)
               /\ Holders(db, params[1].name, params[1].value, 0) # {})
                => /\ Refused(add(db, cfg, auth, params, now + 1, 0), db)
                   /\ \A identifier \in UniqueIdentifiers :
                         (/\ ~MatchesNoRow(db, identifier)
                          /\ Holders(db, params[1].name, params[1].value,
                                     ParseId(identifier)[1]) # {})
                           => Refused(edit(db, cfg, auth, identifier, params,
                                           now + 1, 0), db)
        /\ \A args \in UniqueArgsSet :
              (/\ args.unique
               /\ \E i \in 1..Len(db.inventory_rows) :
                     /\ args.name \in DOMAIN db.inventory_rows[i].vals
                     /\ db.inventory_rows[i].vals[args.name] # None
                     /\ Holders(db, args.name,
                                db.inventory_rows[i].vals[args.name][1],
                                db.inventory_rows[i].id) # {})
                => Refused(alter(db, cfg, auth, args, now + 1, 0), db)

\* C29: for a column declared unique, in every committed state no two
\* records (soft-deleted records included) hold the same non-NULL value in
\* that column; an add or edit that would create a duplicate fails leaving
\* records and ledgers unchanged, and an Alter that makes a column unique
\* while duplicates exist fails leaving schema, table and ledger unchanged.
C29_UniqueColumnsStayUnique ==
    /\ []UniqueColumnsDistinct
    /\ []DuplicatesRefused
    /\ [][(last'.op \in {"inventory_add", "inventory_edit", "schema_alter"}
              /\ ~last'.ok) => db' = db]_vars

\* an add has just been refused while the schema declares sku unique and
\* the only record is soft-deleted
C29_Witness ==
    /\ last.op = "inventory_add"
    /\ ~last.ok
    /\ last.stage = "storage"
    /\ DeclaredUnique(config, "sku")
    /\ Len(db.inventory_rows) = 1
    /\ db.inventory_rows[1].deleted_at # None
    /\ db.inventory_rows[1].vals["sku"] # None

\* the ids of the records a listing returned, in the order returned
EntryIds(entries) == [i \in 1..Len(entries) |-> get_id(entries[i])]

\* the ids of the records of the table, in table order
TableIds(d) == [i \in 1..Len(d.inventory_rows) |-> Some(d.inventory_rows[i].id)]

\* C30: inventory list is read-only: it changes no record, no schema state
\* and no ledger. Without a raw filter it returns every record when limit
\* is absent or <= 0 and at most limit records when limit > 0; when a raw
\* filter is given the limit is ignored.
C30_ListReadOnlyAndLimited ==
    [][(last'.op = "inventory_list")
          => /\ db' = db
             /\ last'.ok
                  => \E args \in {last'.args}, ids \in {EntryIds(last'.entries)} :
                        /\ (args.raw = None /\ unwrap_or(args.limit, -1) <= 0)
                             => ids = TableIds(db)
                        /\ (args.raw = None /\ unwrap_or(args.limit, -1) > 0)
                             => /\ Len(ids) <= args.limit[1]
                                /\ IsPrefix(ids, TableIds(db))
                        /\ args.raw # None
                             => last'.entries
                                  = list(db, get_config(db), Some(Token("alice", "pw")),
                                         ListArgs(None, args.raw, args.params)).result]_vars

\* a listing with --limit 1 and no raw filter has just returned one of two
\* records
C30_Witness ==
    /\ last.op = "inventory_list"
    /\ last.ok
    /\ last.args = ListArgs(Some(1), None, <<>>)
    /\ Len(db.inventory_rows) = 2
    /\ Len(last.entries) = 1

\* C31: the schema ledger forms an unbroken chain that ends at the current
\* registry: the schema_before of every schema-ledger row equals the
\* schema_after of the row before it, and the schema_after of the last row
\* equals the persisted registry, after any sequence of schema operations
\* issued on one context, failed operations included.
C31_SchemaLedgerChain ==
    /\ \A i \in 1..(Len(db.schema_tx) - 1) :
          db.schema_tx[i + 1].from_val = db.schema_tx[i].to_val
    /\ db.schema_tx # <<>>
          => db.schema_tx[Len(db.schema_tx)].to_val = db.config_value

\* the arguments declare a column the schema does not hold, NOT NULL and
\* without default
NewRequiredColumn(args, cfg) ==
    /\ \A k \in 1..Len(cfg) : cfg[k].name # args.name
    /\ args.nullable \in {None, Some(FALSE)}
    /\ args.default = None

\* C32: a schema Alter that adds a new column declared non-nullable with no
\* default fails whenever the record table holds at least one record, and
\* then leaves table, registry and schema ledger unchanged; the same Alter
\* succeeds when the table is empty.
C32_RequiredColumnNeedsEmptyTable ==
    [][(last'.op = "schema_alter" /\ NewRequiredColumn(last'.args, get_config(db)))
          => /\ db.inventory_rows # <<>> => ~last'.ok /\ db' = db
             /\ db.inventory_rows = <<>>
                  => /\ last'.ok
                     /\ \E k \in 1..Len(db'.inventory_cols) :
                           /\ db'.inventory_cols[k].name = last'.args.name
                           /\ db'.inventory_cols[k].not_null
                     /\ Names(get_config(db'))
                           = Append(Names(get_config(db)), last'.args.name)
                     /\ Len(db'.schema_tx) = Len(db.schema_tx) + 1]_vars

\* the alter that declares qty NOT NULL without default has just been
\* refused by storage on a table that holds a record and no column qty
C32_Witness ==
    /\ last.op = "schema_alter"
    /\ ~last.ok
    /\ last.stage = "storage"
    /\ NewRequiredColumn(last.args, get_config(db))
    /\ db.inventory_rows # <<>>

\* C33: two invocations that both loaded the configuration while the
\* schema was S and then each perform a successful Alter adding a different
\* new column do not lose an update: the Alter of an invocation keeps every
\* column the registry and the record table hold when it commits, and the
\* data written to those columns.
C33_NoLostUpdate ==
    [][\A p \in Invocations :
          (/\ last.loaded[p] # None
           /\ last'.loaded[p] = None
           /\ last'.op = "schema_alter"
           /\ last'.ok)
            => /\ Range(Names(get_config(db))) \subseteq Range(Names(get_config(db')))
               /\ TableNames(db.inventory_cols) \subseteq TableNames(db'.inventory_cols)
               /\ Len(db'.inventory_rows) = Len(db.inventory_rows)
               /\ \A i \in 1..Len(db.inventory_rows) :
                     \A c \in TableNames(db.inventory_cols) :
                         db'.inventory_rows[i].vals[c] = db.inventory_rows[i].vals[c]]_vars

\* the declared columns of a snapshot
DeclaredFields(snapshot) == Keys(snapshot) \ Range(SystemColumns)

\* the columns of the schema version a schema-ledger id names
VersionColumns(d, schema_id) ==
    Range(Names(from_str(d.schema_tx[CHOOSE k \in 1..Len(d.schema_tx) :
                                       d.schema_tx[k].id = schema_id].to_val)))

\* C34: record operations act only under the current schema version: for
\* every record-ledger row, the declared-column field set of its
\* after-snapshot equals the column set of the schema version named by its
\* schema_id, even when a schema Alter or Remove of another invocation
\* commits between the configuration load and the transaction.
C34_SnapshotsUnderNamedVersion ==
    \A i \in 1..Len(db.inventory_tx) :
        /\ db.inventory_tx[i].to_val # None
        /\ \E k \in 1..Len(db.schema_tx) :
              db.schema_tx[k].id = db.inventory_tx[i].schema_id
        /\ DeclaredFields(db.inventory_tx[i].to_val[1])
              = VersionColumns(db, db.inventory_tx[i].schema_id)

\* the record-ledger rows with action Delete written for record id
DeleteRows(d, id) ==
    { k \in 1..Len(d.inventory_tx) :
        d.inventory_tx[k].action_no = "Delete" /\ d.inventory_tx[k].inventory_id = id }

\* the remove of record id returned success, changed no record and appended
\* one Delete row, with equal snapshots, and one event row
RemovedAgain(o, d, id) ==
    /\ o.ok
    /\ o.db.inventory_rows = d.inventory_rows
    /\ Len(o.db.inventory_tx) = Len(d.inventory_tx) + 1
    /\ IsPrefix(d.inventory_tx, o.db.inventory_tx)
    /\ NewestTx(o.db).action_no = "Delete"
    /\ NewestTx(o.db).inventory_id = id
    /\ NewestTx(o.db).from_val = NewestTx(o.db).to_val
    /\ Len(o.db.event_tx) = Len(d.event_tx) + 1
    /\ IsPrefix(d.event_tx, o.db.event_tx)
    /\ o.db.event_tx[Len(o.db.event_tx)].action_no = "InventoryRemove"

\* the remove of every soft-deleted record succeeds in this way
SoftDeletedRemovable ==
    \E cfg \in {get_config(db)} :
        \A i \in 1..Len(db.inventory_rows) :
            db.inventory_rows[i].deleted_at # None
              => RemovedAgain(remove(db, cfg, Some(Token("alice", "pw")),
                                     ToString(db.inventory_rows[i].id), now + 1, 0),
                              db, db.inventory_rows[i].id)

\* C36: inventory remove of a record that is already soft-deleted does not
\* fail: it returns success and appends one Delete record-ledger row and one
\* event-ledger row although no record field changes, so the number of
\* Delete ledger rows for a record can exceed one.
C36_RemoveAgainIsLogged ==
    /\ []SoftDeletedRemovable
    /\ [][(/\ last'.op = "inventory_remove"
           /\ last'.ok
           /\ RowOf(db, NewestTx(db').inventory_id).deleted_at # None)
            => /\ db'.inventory_rows = db.inventory_rows
               /\ Len(db'.inventory_tx) = Len(db.inventory_tx) + 1
               /\ Len(db'.event_tx) = Len(db.event_tx) + 1
               /\ NewestTx(db').from_val = NewestTx(db').to_val]_vars

\* a record has just been removed for the second time and the record ledger
\* holds two Delete rows for it
C36_Witness ==
    /\ last.op = "inventory_remove"
    /\ last.ok
    /\ \E i \in 1..Len(db.inventory_rows) :
          /\ db.inventory_rows[i].deleted_at # None
          /\ Cardinality(DeleteRows(db, db.inventory_rows[i].id)) = 2

\* the schema_id values of the record ledger do not decrease, each names a
\* row of the schema ledger, and no record-ledger row exists while the
\* schema ledger is empty
SchemaIdsOrdered ==
    /\ \A i, j \in 1..Len(db.inventory_tx) :
          i < j => db.inventory_tx[i].schema_id <= db.inventory_tx[j].schema_id
    /\ \A i \in 1..Len(db.inventory_tx) :
          \E k \in 1..Len(db.schema_tx) :
              db.schema_tx[k].id = db.inventory_tx[i].schema_id
    /\ db.schema_tx = <<>> => db.inventory_tx = <<>>

\* C37: in record-ledger order the schema_id values are non-decreasing, and
\* every record-ledger row's schema_id is the id of a schema-ledger row that
\* exists; no inventory add, edit or remove commits a record-ledger row
\* while the schema ledger is empty.
C37_SchemaIdsFollowSchemaLedger ==
    /\ []SchemaIdsOrdered
    /\ [][(last'.op \in RecordWriteOps /\ db.schema_tx = <<>>)
            => ~last'.ok /\ db' = db]_vars

\* an add has just been committed under a second schema version after a
\* record-ledger row written under the first
C37_Witness ==
    /\ last.op = "inventory_add"
    /\ last.ok
    /\ Len(db.inventory_tx) >= 2
    /\ db.inventory_tx[1].schema_id < NewestTx(db).schema_id
    /\ NewestTx(db).schema_id = db.schema_tx[Len(db.schema_tx)].id

\* C38: a record's created_at never changes after the record is added:
\* every later inventory edit, inventory remove, and every successful
\* schema Alter or Remove leaves each existing record's created_at equal to
\* the value set at add time.
C38_CreatedAtIsKept ==
    [][/\ Ids(db) \subseteq Ids(db')
       /\ \A id \in Ids(db) : RowOf(db', id).created_at = RowOf(db, id).created_at
       /\ \A id \in Ids(db') \ Ids(db) :
             last'.op = "inventory_add" /\ RowOf(db', id).created_at = now']_vars

\* a schema change has just been committed over a record that was added,
\* and removed, at earlier times
C38_Witness ==
    /\ last.op \in SchemaOps
    /\ last.ok
    /\ \E i \in 1..Len(db.inventory_rows) :
          /\ db.inventory_rows[i].deleted_at # None
          /\ db.inventory_rows[i].created_at < db.inventory_rows[i].updated_at
          /\ db.inventory_rows[i].updated_at < now

\* the database in which record i is not soft-deleted
Undeleted(d, i) == [d EXCEPT !.inventory_rows[i].deleted_at = None]

\* a listing without limit and raw filter returns every soft-deleted
\* record, with deleted_at populated
SoftDeletedListed ==
    \E o \in {list(db, get_config(db), Some(Token("alice", "pw")),
                    ListArgs(None, None, <<>>))} :
        \A i \in 1..Len(db.inventory_rows) :
            db.inventory_rows[i].deleted_at # None
              => /\ o.ok
                 /\ Len(o.result) = Len(db.inventory_rows)
                 /\ get_id(o.result[i]) = Some(db.inventory_rows[i].id)
                 /\ \E m \in 1..Len(o.result[i]) : o.result[i][m].key = "deleted_at"
                 /\ \A m \in 1..Len(o.result[i]) :
                       o.result[i][m].key = "deleted_at" => o.result[i][m].value # None

\* an edit of a soft-deleted record succeeds exactly when the same edit of
\* the record not soft-deleted does, and then writes the given values
SoftDeletedEditable ==
    \E cfg \in {get_config(db)}, auth \in {Some(Token("alice", "pw"))} :
        \A i \in 1..Len(db.inventory_rows) :
            db.inventory_rows[i].deleted_at # None
              => \A set \in ParamVecs :
                    \E o \in {edit(db, cfg, auth, ToString(db.inventory_rows[i].id),
                                   set, now + 1, 0)} :
                        /\ o.ok = edit(Undeleted(db, i), cfg, auth,
                                       ToString(db.inventory_rows[i].id), set,
                                       now + 1, 0).ok
                        /\ o.ok
                             => /\ \A k \in 1..Len(set) :
                                      o.db.inventory_rows[i].vals[set[k].name]
                                         = Some(set[k].value)
                                /\ o.db.inventory_rows[i].deleted_at
                                      = db.inventory_rows[i].deleted_at

\* C39: inventory list without a raw filter does not hide soft-deleted
\* records: a record removed by inventory remove is still returned by list,
\* with deleted_at populated, and inventory edit on a soft-deleted record
\* still succeeds and changes its fields.
C39_SoftDeletedStayVisible ==
    /\ []SoftDeletedListed
    /\ []SoftDeletedEditable
    /\ [][(/\ last'.op = "inventory_edit"
           /\ last'.ok
           /\ RowOf(db, NewestTx(db').inventory_id).deleted_at # None)
            => /\ NewestTx(db').action_no = "Edit"
               /\ RowOf(db', NewestTx(db').inventory_id).deleted_at
                     = RowOf(db, NewestTx(db').inventory_id).deleted_at
               /\ RowOf(db', NewestTx(db').inventory_id).updated_at = now']_vars

\* a soft-deleted record has just been edited: the snapshots of the Edit
\* ledger row differ and its deleted_at is still populated
C39_Witness ==
    /\ last.op = "inventory_edit"
    /\ last.ok
    /\ NewestTx(db).action_no = "Edit"
    /\ NewestTx(db).from_val # NewestTx(db).to_val
    /\ RowOf(db, NewestTx(db).inventory_id).deleted_at # None
    /\ RowOf(db, NewestTx(db).inventory_id).deleted_at[1] < now

====
